---- MODULE Spec2Model ----
(***************************************************************************)
(* Model of the AG-UI adapter of ag-ui-travel-agent                        *)
(* (src/ag_ui_ag2/ag_ui_adapter.py): the thread registry, the event        *)
(* translator (visit_* handlers), the two queues of a thread, the stream   *)
(* controller (run_thread) and the worker host (run_agent).                *)
(*                                                                         *)
(* Scheduling.  The asyncio event loop runs one coroutine at a time and    *)
(* switches only at an await or a yield.  A visit_* handler runs on the    *)
(* loop (syncify) and has no await before its input_queue.get(), so its    *)
(* enqueues are one atomic step.  run_thread is an async generator: every  *)
(* yield and every await is a step boundary.                               *)
(***************************************************************************)
EXTENDS Integers, Sequences, FiniteSets, TLC

(* ------------------------------ bounds -------------------------------- *)

\* HTTP requests (POST agui_path) made in a behaviour.
MaxRequests == 3

\* Requests made by the client of Spec, which waits for a stream to end
\* before its next request.
MaxSequential == 2

\* Requests made by the clients of OverlappingSpec.
MaxOverlapping == 2

\* Semantic events the workers hand to the translator in a behaviour.
MaxSemantic == 2

\* Calls of send_to_thread in a behaviour.
MaxSends == 1

(* ------------------------------ inputs -------------------------------- *)

\* Client-visible thread identifiers.
ThreadIds == {"T1", "T2"}

\* Python's None.
None == "None"

\* The literal the prompt rewrite looks for, and what it puts in its place.
\* A prompt is a sequence of tokens; the literal is one token of it.
PressEnter == "Press enter to skip and use auto-reply"
AnswerContinue == "Answer continue to skip and use auto-reply"

\* hitl_workflow's first prompt.
INITIAL_MESSAGE == <<"INITIAL_MESSAGE">>

\* Prompts of an input request: empty, the workflow's, one with the literal.
Prompts == {<< >>, INITIAL_MESSAGE, <<"Reply.", PressEnter>>}

\* Values a client sends as the content of a user message.
Inputs == {"continue", "P12345"}

\* What the last entry of input.messages of a request is: a user message
\* with some content, or a message of another role.
NonUser == [role |-> "assistant", content |-> "ok"]
UserMessage(c) == [role |-> "user", content |-> c]
LastMessages == {NonUser} \cup {UserMessage(c) : c \in Inputs}

\* Bodies of plain text events.
Bodies == {"", "Hello"}

\* Tool argument payloads: a JSON string that parses, and one that does not.
WellFormedArgs == "{\"member_id\":\"P12345\"}"
MalformedArgs == "{member_id"
ArgPayloads == {WellFormedArgs, MalformedArgs}

(* ------------------------------ events -------------------------------- *)

RunStartedEvent(tid, rid) ==
    [type |-> "RUN_STARTED", thread_id |-> tid, run_id |-> rid]

RunFinishedEvent(tid, rid) ==
    [type |-> "RUN_FINISHED", thread_id |-> tid, run_id |-> rid]

StateSnapshotEvent(snapshot) ==
    [type |-> "STATE_SNAPSHOT", snapshot |-> snapshot]

StateDeltaEvent(delta) ==
    [type |-> "STATE_DELTA", delta |-> delta]

TextMessageStartEvent(mid) ==
    [type |-> "TEXT_MESSAGE_START", message_id |-> mid, role |-> "assistant"]

TextMessageContentEvent(mid, delta) ==
    [type |-> "TEXT_MESSAGE_CONTENT", message_id |-> mid, delta |-> delta]

TextMessageEndEvent(mid) ==
    [type |-> "TEXT_MESSAGE_END", message_id |-> mid]

ToolCallStartEvent(mid, tcid, name) ==
    [type |-> "TOOL_CALL_START", message_id |-> mid, toolCallId |-> tcid,
     toolCallName |-> name]

ToolCallArgsEvent(mid, tcid, name, args) ==
    [type |-> "TOOL_CALL_ARGS", message_id |-> mid, toolCallId |-> tcid,
     toolCallName |-> name, args |-> args]

ToolCallEndEvent(mid, tcid, name) ==
    [type |-> "TOOL_CALL_END", message_id |-> mid, toolCallId |-> tcid,
     toolCallName |-> name]

CustomEvent(name) ==
    [type |-> "CUSTOM", name |-> name]

\* What send_to_thread puts on the outbound queue: a plain str, no event.
StrMessage(text) ==
    [type |-> "str", text |-> text]

Op(op, path, value) ==
    [op |-> op, path |-> path, value |-> value]

(* ---------------------------- identifiers ------------------------------ *)

\* uuid4(): a value no other call returns.  The n-th uuid drawn on behalf of
\* owner (a worker's token, 0 for the request handler) for purpose kind.
Uuid4(kind, owner, n) == <<kind, owner, n>>

\* The fixed id of the snapshot's first transcript entry.
PlaceholderId == <<"placeholder", 0, 0>>

\* The run id the client puts in its k-th request.
ClientRunId(k) == <<"run", 0, k>>

(* -------------------------- state document ---------------------------- *)

\* run_thread's initial_state (the two timestamps left out).
InitialState ==
    [status |-> [phase |-> "initialized", error |-> None],
     conversation |->
        [stage |-> "starting",
         messages |-> <<[id |-> PlaceholderId, role |-> "assistant",
                         content |-> ""]>>,
         tools |-> << >>,
         completed |-> FALSE],
     agent |-> [name |-> "Travel Assistant",
                capabilities |-> <<"search", "recommend", "book">>,
                current_task |-> None],
     ui |-> [showProgress |-> TRUE, activeTab |-> "chat",
             loading |-> FALSE, showInput |-> FALSE]]

\* ProcessingDelta with the phase left as the snapshot has it.
ProcessingDelta_PhaseKept ==
    <<Op("replace", "/status/phase", "initialized"),
      Op("replace", "/ui/loading", TRUE),
      Op("replace", "/agent/current_task", "Processing your request...")>>

ProcessingDelta ==
    <<Op("replace", "/status/phase", "processing"),
      Op("replace", "/ui/loading", TRUE),
      Op("replace", "/agent/current_task", "Processing your request...")>>

\* CompletionDelta without the clearing of ui.loading.
CompletionDelta_LoadingKept ==
    <<Op("replace", "/status/phase", "completed"),
      Op("replace", "/agent/current_task", None)>>

CompletionDelta ==
    <<Op("replace", "/status/phase", "completed"),
      Op("replace", "/ui/loading", FALSE),
      Op("replace", "/agent/current_task", None)>>

ThreadOverDelta ==
    <<Op("replace", "/status/phase", "thread_completed"),
      Op("replace", "/conversation/completed", TRUE),
      Op("replace", "/ui/loading", FALSE)>>

ErrorDelta(e) ==
    <<Op("replace", "/status/phase", "error"),
      Op("replace", "/status/error", e),
      Op("replace", "/ui/loading", FALSE)>>

\* A Python dict lookup with a default: d.get(k, default).
DictGet(d, k, default) ==
    IF k \in DOMAIN d THEN d[k] ELSE default

\* {}
EmptyDict == << >>

(* ------------------- the client's copy of the document ---------------- *)

\* What a client holds before any snapshot: nothing.
NoDocument == [defined |-> FALSE, doc |-> InitialState]

\* Whether a patch operation can be applied (RFC 6902): a replace needs its
\* target to exist, an add to a list end needs the list, an add of a member
\* needs the parent object.  "-1" is no list index of a JSON pointer.
Applicable(c, op) ==
    /\ c.defined
    /\ \/ /\ op.op = "replace"
          /\ op.path \in {"/status/phase", "/status/error", "/ui/loading",
                          "/ui/showInput", "/ui/showProgress",
                          "/agent/current_task", "/conversation/completed"}
       \/ /\ op.op = "add"
          /\ op.path \in {"/conversation/messages/-", "/conversation/tools/-",
                          "/conversation/messages", "/conversation/tools"}

ApplyOp(c, op) ==
    IF ~Applicable(c, op) THEN c
    ELSE LET d == c.doc
             v == op.value
             n == CASE op.path = "/status/phase" ->
                         [d EXCEPT !.status.phase = v]
                    [] op.path = "/status/error" ->
                         [d EXCEPT !.status.error = v]
                    [] op.path = "/ui/loading" ->
                         [d EXCEPT !.ui.loading = v]
                    [] op.path = "/ui/showInput" ->
                         [d EXCEPT !.ui.showInput = v]
                    [] op.path = "/ui/showProgress" ->
                         [d EXCEPT !.ui.showProgress = v]
                    [] op.path = "/agent/current_task" ->
                         [d EXCEPT !.agent.current_task = v]
                    [] op.path = "/conversation/completed" ->
                         [d EXCEPT !.conversation.completed = v]
                    [] op.path = "/conversation/messages/-" ->
                         [d EXCEPT !.conversation.messages = Append(@, v)]
                    [] op.path = "/conversation/tools/-" ->
                         [d EXCEPT !.conversation.tools = Append(@, v)]
                    [] op.path = "/conversation/messages" ->
                         [d EXCEPT !.conversation.messages = v]
                    [] op.path = "/conversation/tools" ->
                         [d EXCEPT !.conversation.tools = v]
         IN  [c EXCEPT !.doc = n]

RECURSIVE ApplyDelta(_, _)
ApplyDelta(c, delta) ==
    IF delta = << >> THEN c
    ELSE ApplyDelta(ApplyOp(c, Head(delta)), Tail(delta))

\* The client's document after one more wire event.
ApplyEvent(c, ev) ==
    IF ev.type = "STATE_SNAPSHOT" THEN [defined |-> TRUE, doc |-> ev.snapshot]
    ELSE IF ev.type = "STATE_DELTA" THEN ApplyDelta(c, ev.delta)
    ELSE c

RECURSIVE ApplyEvents(_, _)
ApplyEvents(c, evs) ==
    IF evs = << >> THEN c
    ELSE ApplyEvents(ApplyEvent(c, Head(evs)), Tail(evs))

\* The client's document after the first k events sent on a thread.
ClientDocument(sent, k) == ApplyEvents(NoDocument, SubSeq(sent, 1, k))

(* ------------------------------- state -------------------------------- *)

VARIABLES
    agui_threads,   \* AGUIAdapter._agui_threads: thread id -> thread object
    thread_infos,   \* the AGUIThreadInfo objects ever made, by workflow_id
    workers,        \* the worker executions launched, in launch order
    streams,        \* one run_thread generator per request, in request order
    n_semantic,     \* semantic events handed to the translator so far
    n_sends,        \* send_to_thread calls so far
    conversation_manager,  \* fastapi_ui's ConversationManager: its three maps
    input_queues,   \* the asyncio.Queue objects create_conversation ever made
    endpoints,      \* the websocket_endpoint coroutines, in accept order
    workflows       \* the run_workflow tasks start_conversation launched

\* The state of the WebSocket UI.
ui_vars == <<conversation_manager, input_queues, endpoints, workflows>>

vars == <<agui_threads, thread_infos, workers, streams, n_semantic, n_sends,
          ui_vars>>

\* A thread object that is made inactive.
AGUIThreadInfo_Inactive(thread_id, run_id, workflow_id) ==
    [thread_id |-> thread_id,
     run_id |-> run_id,
     workflow_id |-> workflow_id,
     out_queue |-> << >>,
     input_queue |-> << >>,
     active |-> FALSE,
     sent_messages |-> << >>,
     state |-> EmptyDict,
     delivered |-> << >>,
     enqueued |-> << >>,
     forwarded |-> << >>]

\* AGUIThreadInfo.__init__.  The last three fields are histories kept for
\* the properties, not fields of the object: the values ever put on
\* input_queue, the messages ever put on out_queue, and the messages taken
\* from out_queue that a generator has yielded, each in order.
AGUIThreadInfo(thread_id, run_id, workflow_id) ==
    [thread_id |-> thread_id,
     run_id |-> run_id,
     workflow_id |-> workflow_id,
     out_queue |-> << >>,
     input_queue |-> << >>,
     active |-> TRUE,
     sent_messages |-> << >>,
     state |-> EmptyDict,
     delivered |-> << >>,
     enqueued |-> << >>,
     forwarded |-> << >>]

\* No message held by a generator.
NoMessage == [type |-> "none"]

\* The generator run_thread(input, request) before its first step.
\* created: whether the request that made it registered the thread.
NewStream(thread_id, run_id, created) ==
    [thread_id |-> thread_id,
     run_id |-> run_id,
     created |-> created,
     pc |-> "init",
     thread_info |-> 0,
     message |-> NoMessage,
     connected |-> TRUE,
     wire |-> << >>]

\* The task process_messages_in_background(workflow_uuid), just created.
\* log: the semantic events it has handed over; n_uuid: uuids drawn for it;
\* thread_info: the thread object a suspended handler holds.
NewWorker(workflow_uuid) ==
    [workflow_uuid |-> workflow_uuid,
     pc |-> "running",
     n_uuid |-> 0,
     thread_info |-> 0,
     log |-> << >>]

Init ==
    /\ agui_threads = [t \in {} |-> 0]
    /\ thread_infos = << >>
    /\ workers = << >>
    /\ streams = << >>
    /\ n_semantic = 0
    /\ n_sends = 0
    /\ conversation_manager = [conversations |-> [c \in {} |-> << >>],
                               websockets |-> [c \in {} |-> 0],
                               pending_inputs |-> [c \in {} |-> 0]]
    /\ input_queues = << >>
    /\ endpoints = << >>
    /\ workflows = << >>

Terminal == {"FINISHED", "ERRORED", "ABANDONED", "NOT_FOUND"}

(* --------------------------- thread registry -------------------------- *)

\* self._agui_threads.get(thread_id): the object's index, 0 for None.
get_thread_info_of_agui(thread_id) ==
    IF thread_id \in DOMAIN agui_threads THEN agui_threads[thread_id] ELSE 0

\* A lookup among all thread objects ever made, registered or retired.
get_thread_info_of_workflow_Retired(workflow_uuid) ==
    IF \E i \in 1..Len(thread_infos) :
           thread_infos[i].workflow_id = workflow_uuid
    THEN CHOOSE i \in 1..Len(thread_infos) :
           thread_infos[i].workflow_id = workflow_uuid
    ELSE 0

\* A lookup that takes some registered thread, whatever its token.
get_thread_info_of_workflow_Any(workflow_uuid) ==
    IF DOMAIN agui_threads # {}
    THEN agui_threads[CHOOSE t \in DOMAIN agui_threads : TRUE]
    ELSE 0

\* The first registered thread whose workflow_id is the token, 0 if there is
\* none (the code then raises RuntimeError).
get_thread_info_of_workflow(workflow_uuid) ==
    IF \E t \in DOMAIN agui_threads :
           thread_infos[agui_threads[t]].workflow_id = workflow_uuid
    THEN CHOOSE i \in 1..Len(thread_infos) :
           /\ thread_infos[i].workflow_id = workflow_uuid
           /\ \E t \in DOMAIN agui_threads : agui_threads[t] = i
    ELSE 0

\* _agui_threads with thread_id popped.
Popped(thread_id) ==
    [t \in DOMAIN agui_threads \ {thread_id} |-> agui_threads[t]]

\* end_of_thread without the pop: the registry as it was.
end_of_thread_registry_Kept(thread_id) == agui_threads

\* end_of_thread(thread_id): the registry and the objects afterwards.
end_of_thread_registry(thread_id) == Popped(thread_id)

\* end_of_thread without the change of the flag: the objects as they were.
end_of_thread_infos_ActiveKept(thread_id) == thread_infos

end_of_thread_infos(thread_id) ==
    LET i == get_thread_info_of_agui(thread_id)
    IN  IF i = 0 THEN thread_infos
        ELSE [thread_infos EXCEPT ![i].active = FALSE]

\* end_of_thread(thread_id), called on its own.
end_of_thread(thread_id) ==
    /\ agui_threads' = end_of_thread_registry(thread_id)
    /\ thread_infos' = end_of_thread_infos(thread_id)
    /\ UNCHANGED <<workers, streams, n_semantic, n_sends, ui_vars>>

\* send_to_thread(thread_id, message)
send_to_thread(thread_id, message) ==
    /\ n_sends < MaxSends
    /\ n_sends' = n_sends + 1
    /\ LET i == get_thread_info_of_agui(thread_id)
       IN  thread_infos' =
             IF i # 0 /\ thread_infos[i].active
             THEN [thread_infos EXCEPT
                     ![i].out_queue = Append(@, StrMessage(message)),
                     ![i].enqueued = Append(@, StrMessage(message))]
             ELSE thread_infos
    /\ UNCHANGED <<agui_threads, workers, streams, n_semantic, ui_vars>>

(* ---------------------------- worker host ----------------------------- *)

\* A queue that holds one item: a put replaces what is there.
put_nowait_Overwrite(queue, item) == <<item>>

\* A put that enqueues the item twice.
put_nowait_Twice(queue, item) == Append(Append(queue, item), item)

\* asyncio.Queue.put_nowait(item) on an unbounded queue.
put_nowait(queue, item) == Append(queue, item)

\* A membership test that never finds the thread id.
IsRegistered_Never(thread_id) == FALSE

\* "if input.thread_id in self._agui_threads"
IsRegistered(thread_id) == thread_id \in DOMAIN agui_threads

\* POST agui_path: run_agent(input, request) up to its return.
run_agent(thread_id, last_message) ==
    /\ Len(streams) < MaxRequests
    /\ LET k == Len(streams) + 1
           run_id == ClientRunId(k)
       IN  IF IsRegistered(thread_id)
           THEN \* CASE 1: resuming an existing thread
                LET i == agui_threads[thread_id]
                IN  /\ thread_infos' =
                          IF last_message.role = "user"
                          THEN [thread_infos EXCEPT
                                  ![i].input_queue =
                                      put_nowait(@, last_message.content),
                                  ![i].delivered =
                                      Append(@, last_message.content)]
                          ELSE thread_infos
                    /\ streams' =
                          Append(streams, NewStream(thread_id, run_id, FALSE))
                    /\ UNCHANGED <<agui_threads, workers>>
           ELSE \* CASE 2: creating a new thread, launching its worker
                LET workflow_uuid == Len(thread_infos) + 1
                IN  /\ thread_infos' = Append(thread_infos,
                          AGUIThreadInfo(thread_id, run_id, workflow_uuid))
                    /\ agui_threads' =
                          [t \in DOMAIN agui_threads \cup {thread_id} |->
                             IF t = thread_id THEN workflow_uuid
                             ELSE agui_threads[t]]
                    /\ workers' = Append(workers, NewWorker(workflow_uuid))
                    /\ streams' =
                          Append(streams, NewStream(thread_id, run_id, TRUE))
    /\ UNCHANGED <<n_semantic, n_sends, ui_vars>>

(* -------------------------- stream controller ------------------------- *)

\* Whether EventEncoder.encode accepts the message: it calls
\* model_dump_json, which a plain str does not have.
Encodable(message) == message.type # "str"

\* _sse_send's first line: the thread's transcript with the message appended.
Recorded(infos, i, message) ==
    [infos EXCEPT ![i].sent_messages = Append(@, message)]

\* _sse_send of a message that was taken from out_queue.
Forwarded(infos, i, message) ==
    [Recorded(infos, i, message) EXCEPT ![i].forwarded = Append(@, message)]

\* "yield self._sse_send(message, thread_info)": the generator hands the
\* encoded message to the transport and stops at label pc.
Yielded(strs, s, message, pc) ==
    [strs EXCEPT ![s].wire = Append(@, message), ![s].pc = pc]

\* run_thread up to its first yield: the lookup, then run-started.
StreamStart(s) ==
    /\ streams[s].pc = "init"
    /\ LET i == get_thread_info_of_agui(streams[s].thread_id)
       IN  IF i = 0
           THEN \* raise RuntimeError("Thread ... not found")
                /\ streams' = [streams EXCEPT ![s].pc = "NOT_FOUND"]
                /\ UNCHANGED thread_infos
           ELSE LET ev == RunStartedEvent(thread_infos[i].thread_id,
                                          thread_infos[i].run_id)
                IN  /\ thread_infos' = Recorded(thread_infos, i, ev)
                    /\ streams' = Yielded(
                          [streams EXCEPT ![s].thread_info = i],
                          s, ev, "snapshot")
    /\ UNCHANGED <<agui_threads, workers, n_semantic, n_sends, ui_vars>>

\* A snapshot that only the stream of the request that made the thread
\* emits; the stream of a later request goes on without one.
StreamSnapshot_NewOnly(s) ==
    /\ streams[s].pc = "snapshot"
    /\ LET ev == StateSnapshotEvent(InitialState)
       IN  IF streams[s].created
           THEN /\ thread_infos' =
                      Recorded(thread_infos, streams[s].thread_info, ev)
                /\ streams' = Yielded(streams, s, ev, "processing")
           ELSE /\ streams' = [streams EXCEPT ![s].pc = "processing"]
                /\ UNCHANGED thread_infos
    /\ UNCHANGED <<agui_threads, workers, n_semantic, n_sends, ui_vars>>

\* The initial state snapshot.
StreamSnapshot(s) ==
    /\ streams[s].pc = "snapshot"
    /\ LET ev == StateSnapshotEvent(InitialState)
       IN  /\ thread_infos' =
                Recorded(thread_infos, streams[s].thread_info, ev)
           /\ streams' = Yielded(streams, s, ev, "processing")
    /\ UNCHANGED <<agui_threads, workers, n_semantic, n_sends, ui_vars>>

\* The delta that shows processing has started.
StreamProcessing(s) ==
    /\ streams[s].pc = "processing"
    /\ LET ev == StateDeltaEvent(ProcessingDelta)
       IN  /\ thread_infos' =
                Recorded(thread_infos, streams[s].thread_info, ev)
           /\ streams' = Yielded(streams, s, ev, "loop")
    /\ UNCHANGED <<agui_threads, workers, n_semantic, n_sends, ui_vars>>

\* A loop test that also retires the thread when the client has gone.
StreamCheck_Retiring(s) ==
    /\ streams[s].pc = "loop"
    /\ streams' = [streams EXCEPT ![s].pc =
                      IF streams[s].connected THEN "get" ELSE "ABANDONED"]
    /\ IF streams[s].connected
       THEN UNCHANGED <<agui_threads, thread_infos>>
       ELSE /\ agui_threads' = Popped(streams[s].thread_id)
            /\ thread_infos' =
                  [thread_infos EXCEPT ![streams[s].thread_info].active = FALSE]
    /\ UNCHANGED <<workers, n_semantic, n_sends, ui_vars>>

\* "while not await request.is_disconnected()"
StreamCheck(s) ==
    /\ streams[s].pc = "loop"
    /\ streams' = [streams EXCEPT ![s].pc =
                      IF streams[s].connected THEN "get" ELSE "ABANDONED"]
    /\ UNCHANGED <<agui_threads, thread_infos, workers, n_semantic, n_sends, ui_vars>>

\* asyncio.wait_for(out_queue.get(), timeout=0.5) times out: continue.
StreamTimeout(s) ==
    /\ streams[s].pc = "get"
    /\ thread_infos[streams[s].thread_info].out_queue = << >>
    /\ streams' = [streams EXCEPT ![s].pc = "loop"]
    /\ UNCHANGED <<agui_threads, thread_infos, workers, n_semantic, n_sends, ui_vars>>

IsRunFinished(message) == message.type = "RUN_FINISHED"

IsThreadOver(message) ==
    message.type = "CUSTOM" /\ message.name = "thread_over"

\* out_queue.get() returns a message; the branch taken up to its first yield.
StreamGet(s) ==
    /\ streams[s].pc = "get"
    /\ LET i == streams[s].thread_info
           q == thread_infos[i].out_queue
       IN  /\ q # << >>
           /\ LET message == Head(q)
                  taken == [thread_infos EXCEPT ![i].out_queue = Tail(q)]
                  held == [streams EXCEPT ![s].message = message]
              IN  IF IsRunFinished(message)
                  THEN LET ev == StateDeltaEvent(CompletionDelta)
                       IN  /\ thread_infos' = Recorded(taken, i, ev)
                           /\ streams' = Yielded(held, s, ev, "finish")
                  ELSE IF IsThreadOver(message)
                  THEN LET ev == StateDeltaEvent(ThreadOverDelta)
                       IN  /\ thread_infos' = Recorded(taken, i, ev)
                           /\ streams' = Yielded(held, s, ev, "over_event")
                  ELSE IF Encodable(message)
                  THEN /\ thread_infos' = Forwarded(taken, i, message)
                       /\ streams' = Yielded(held, s, message, "loop")
                  ELSE \* encode raises after the append; except Exception
                       LET ev == StateDeltaEvent(ErrorDelta("AttributeError"))
                       IN  /\ thread_infos' =
                                Recorded(Recorded(taken, i, message), i, ev)
                           /\ streams' = Yielded(held, s, ev, "error_finish")
    /\ UNCHANGED <<agui_threads, workers, n_semantic, n_sends, ui_vars>>

\* "Now send the RUN_FINISHED event", then break.
StreamFinish(s) ==
    /\ streams[s].pc = "finish"
    /\ thread_infos' = Forwarded(thread_infos, streams[s].thread_info,
                                 streams[s].message)
    /\ streams' = Yielded(streams, s, streams[s].message, "FINISHED")
    /\ UNCHANGED <<agui_threads, workers, n_semantic, n_sends, ui_vars>>

\* "Send the thread over event"
StreamOverEvent(s) ==
    /\ streams[s].pc = "over_event"
    /\ thread_infos' = Forwarded(thread_infos, streams[s].thread_info,
                                 streams[s].message)
    /\ streams' = Yielded(streams, s, streams[s].message, "over_finish")
    /\ UNCHANGED <<agui_threads, workers, n_semantic, n_sends, ui_vars>>

\* "Send RUN_FINISHED after all state updates": a synthesized run-finished.
StreamOverFinish(s) ==
    /\ streams[s].pc = "over_finish"
    /\ LET i == streams[s].thread_info
           ev == RunFinishedEvent(thread_infos[i].thread_id,
                                  thread_infos[i].run_id)
       IN  /\ thread_infos' = Recorded(thread_infos, i, ev)
           /\ streams' = Yielded(streams, s, ev, "over_end")
    /\ UNCHANGED <<agui_threads, workers, n_semantic, n_sends, ui_vars>>

\* self.end_of_thread(input.thread_id), then break.
StreamOverEnd(s) ==
    /\ streams[s].pc = "over_end"
    /\ agui_threads' = end_of_thread_registry(streams[s].thread_id)
    /\ thread_infos' = end_of_thread_infos(streams[s].thread_id)
    /\ streams' = [streams EXCEPT ![s].pc = "FINISHED"]
    /\ UNCHANGED <<workers, n_semantic, n_sends, ui_vars>>

\* An except branch that retires the thread as the thread_over branch does.
StreamErrorFinish_Retiring(s) ==
    /\ streams[s].pc = "error_finish"
    /\ LET i == streams[s].thread_info
           ev == RunFinishedEvent(thread_infos[i].thread_id,
                                  thread_infos[i].run_id)
       IN  /\ thread_infos' =
                 [Recorded(thread_infos, i, ev) EXCEPT ![i].active = FALSE]
           /\ streams' = Yielded(streams, s, ev, "ERRORED")
    /\ agui_threads' = end_of_thread_registry(streams[s].thread_id)
    /\ UNCHANGED <<workers, n_semantic, n_sends, ui_vars>>

\* The except branch's synthesized run-finished, then break.
StreamErrorFinish(s) ==
    /\ streams[s].pc = "error_finish"
    /\ LET i == streams[s].thread_info
           ev == RunFinishedEvent(thread_infos[i].thread_id,
                                  thread_infos[i].run_id)
       IN  /\ thread_infos' = Recorded(thread_infos, i, ev)
           /\ streams' = Yielded(streams, s, ev, "ERRORED")
    /\ UNCHANGED <<agui_threads, workers, n_semantic, n_sends, ui_vars>>

\* The client of a stream goes away.
ClientDisconnect(s) ==
    /\ streams[s].pc \notin Terminal
    /\ streams[s].connected
    /\ streams' = [streams EXCEPT ![s].connected = FALSE]
    /\ UNCHANGED <<agui_threads, thread_infos, workers, n_semantic, n_sends, ui_vars>>

(* --------------------------- event translator ------------------------- *)

\* out_queue.put_nowait(e) for each e of events, in order.
Enqueued(infos, i, events) ==
    [infos EXCEPT ![i].out_queue = @ \o events,
                  ![i].enqueued = @ \o events]

\* str.replace of the literal in a prompt.
ReplacePressEnter(prompt) ==
    [k \in DOMAIN prompt |->
        IF prompt[k] = PressEnter THEN AnswerContinue ELSE prompt[k]]

\* A parse that keeps the payload as the value, unparsed.
JsonLoads_Raw(payload) == [member_id |-> payload]

\* json.loads of a tool argument payload (only called on one that parses).
JsonLoads(payload) == [member_id |-> "P12345"]

JsonParses(payload) == payload = WellFormedArgs

\* The response returned as it was received.
EffectiveAnswer_Verbatim(response) == response

\* if response == "continue": response = ""
EffectiveAnswer(response) ==
    IF response = "continue" THEN "" ELSE response

\* One entry of a worker's log: the semantic event, and for an input
\* request the value read from the inbound queue and the answer returned.
LogEntry(kind, arg) ==
    [kind |-> kind, arg |-> arg, received |-> None, answer |-> None]

\* The worker after handing over a semantic event that drew n uuids and left
\* it at pc.
Stepped(w, kind, arg, n, pc) ==
    [workers EXCEPT ![w].log = Append(@, LogEntry(kind, arg)),
                    ![w].n_uuid = @ + n,
                    ![w].pc = pc]

\* A handler may start: the worker is running its own code.
MayVisit(w) ==
    /\ workers[w].pc = "running"
    /\ n_semantic < MaxSemantic
    /\ n_semantic' = n_semantic + 1

\* The thread a handler of worker w finds (0: RuntimeError).
ThreadOf(w) == get_thread_info_of_workflow(workers[w].workflow_uuid)

\* get_thread_info_of_workflow raised: the exception ends the worker.
VisitRaises(w, kind, arg) ==
    /\ workers' = Stepped(w, kind, arg, 0, "failed")
    /\ UNCHANGED thread_infos

TextMessageEvents(uuid, body) ==
    <<StateDeltaEvent(
         <<Op("replace", "/status/phase", "processing_message"),
           Op("replace", "/agent/current_task", "Processing message...")>>),
      TextMessageStartEvent(uuid),
      TextMessageContentEvent(uuid, body),
      TextMessageEndEvent(uuid),
      StateDeltaEvent(
         <<Op("replace", "/status/phase", "message_complete"),
           Op("replace", "/agent/current_task", None),
           Op("add", "/conversation/messages/-",
              [id |-> uuid, role |-> "assistant", content |-> body])>>)>>

\* visit_text_message(message): a fastagency TextMessage with this body.
visit_text_message(w, body) ==
    /\ MayVisit(w)
    /\ LET i == ThreadOf(w)
           uuid == Uuid4("message", workers[w].workflow_uuid,
                         workers[w].n_uuid + 1)
       IN  IF i = 0 THEN VisitRaises(w, "text_message", body)
           ELSE /\ thread_infos' =
                      Enqueued(thread_infos, i, TextMessageEvents(uuid, body))
                /\ workers' = Stepped(w, "text_message", body, 1, "running")
    /\ UNCHANGED <<agui_threads, streams, n_sends, ui_vars>>

InputRequestDelta ==
    <<Op("replace", "/status/phase", "awaiting_input"),
      Op("replace", "/agent/current_task", "Waiting for user input..."),
      Op("replace", "/ui/showInput", TRUE)>>

\* InputReceivedDelta without the placeholder entry.
InputReceivedDelta_NoEntry(entry_id) ==
    <<Op("replace", "/status/phase", "input_received"),
      Op("replace", "/ui/showInput", FALSE)>>

InputReceivedDelta(entry_id) ==
    <<Op("replace", "/status/phase", "input_received"),
      Op("replace", "/ui/showInput", FALSE),
      Op("add", "/conversation/messages/-",
         [id |-> entry_id, role |-> "user", content |-> ""])>>

\* What visit_text_input enqueues before it fails on an empty prompt
\* (prompt is assigned only "if message.prompt").
TextInputHead(uuid) ==
    <<StateDeltaEvent(InputRequestDelta), TextMessageStartEvent(uuid)>>

\* What it enqueues after that for a non-empty prompt.
TextInputTail(uuid, entry_id, prompt, thread_id, run_id) ==
    <<TextMessageContentEvent(uuid, ReplacePressEnter(prompt)),
      TextMessageEndEvent(uuid),
      StateDeltaEvent(InputReceivedDelta(entry_id)),
      RunFinishedEvent(thread_id, run_id)>>

\* visit_text_input(message) up to "await thread_info.input_queue.get()".
visit_text_input(w, prompt) ==
    /\ MayVisit(w)
    /\ LET i == ThreadOf(w)
           token == workers[w].workflow_uuid
           uuid == Uuid4("message", token, workers[w].n_uuid + 1)
           entry_id == Uuid4("message", token, workers[w].n_uuid + 2)
       IN  IF i = 0 THEN VisitRaises(w, "text_input", prompt)
           ELSE IF prompt = << >>
           THEN \* UnboundLocalError at delta=prompt
                /\ thread_infos' =
                      Enqueued(thread_infos, i, TextInputHead(uuid))
                /\ workers' = Stepped(w, "text_input", prompt, 1, "failed")
           ELSE /\ thread_infos' = Enqueued(thread_infos, i,
                      TextInputHead(uuid) \o
                      TextInputTail(uuid, entry_id, prompt,
                                    thread_infos[i].thread_id,
                                    thread_infos[i].run_id))
                /\ workers' = [Stepped(w, "text_input", prompt, 2,
                                       "text_input")
                                 EXCEPT ![w].thread_info = i]
    /\ UNCHANGED <<agui_threads, streams, n_sends, ui_vars>>

\* The delta visit_text_input enqueues once it has the response.
MessageUpdateDelta(state, entry_id, response) ==
    LET conversation == DictGet(state, "conversation", EmptyDict)
        messages == DictGet(conversation, "messages", << >>)
    IN  IF messages # << >>
        THEN <<Op("replace", "/conversation/messages/-1/content", response)>>
        ELSE <<Op("add", "/conversation/messages",
                  <<[id |-> entry_id, role |-> "user",
                     content |-> response]>>)>>

\* The worker's log with the last entry's response and answer filled in.
Answered(log, received, answer) ==
    [log EXCEPT ![Len(log)].received = received,
                ![Len(log)].answer = answer]

\* visit_text_input from the return of input_queue.get() to its return.
resume_text_input(w) ==
    /\ workers[w].pc = "text_input"
    /\ LET i == workers[w].thread_info
           q == thread_infos[i].input_queue
       IN  /\ q # << >>
           /\ LET response == EffectiveAnswer(Head(q))
                  entry_id == Uuid4("message", workers[w].workflow_uuid,
                                    workers[w].n_uuid + 1)
                  taken == [thread_infos EXCEPT ![i].input_queue = Tail(q)]
              IN  /\ thread_infos' = Enqueued(taken, i,
                        <<StateDeltaEvent(MessageUpdateDelta(
                             thread_infos[i].state, entry_id, response))>>)
                  /\ workers' = [workers EXCEPT
                        ![w].pc = "running",
                        ![w].n_uuid = @ + 1,
                        ![w].log = Answered(@, Head(q), response)]
    /\ UNCHANGED <<agui_threads, streams, n_semantic, n_sends, ui_vars>>

TextEvents(uuid, content) ==
    IF content # ""
    THEN <<TextMessageStartEvent(uuid),
           TextMessageContentEvent(uuid, content),
           TextMessageEndEvent(uuid)>>
    ELSE << >>

\* visit_text(message): an autogen TextMessage with this content.
visit_text(w, content) ==
    /\ MayVisit(w)
    /\ LET i == ThreadOf(w)
           uuid == Uuid4("message", workers[w].workflow_uuid,
                         workers[w].n_uuid + 1)
       IN  IF i = 0 THEN VisitRaises(w, "text", content)
           ELSE /\ thread_infos' =
                      Enqueued(thread_infos, i, TextEvents(uuid, content))
                /\ workers' = Stepped(w, "text", content, 1, "running")
    /\ UNCHANGED <<agui_threads, streams, n_sends, ui_vars>>

\* Who an autogen text is from.
Senders == {"customer", "travel_agent"}

\* The filter hitl_workflow gives the adapter: whether a message of this
\* type from this sender is let through.
without_customer_messages(type, sender) ==
    ~(type = "text" /\ sender = "customer")

\* A rejected message that is translated all the same.
visit_filtered_Translated(w, content) ==
    /\ MayVisit(w)
    /\ LET i == ThreadOf(w)
           uuid == Uuid4("message", workers[w].workflow_uuid,
                         workers[w].n_uuid + 1)
       IN  IF i = 0 THEN VisitRaises(w, "filtered", content)
           ELSE /\ thread_infos' =
                      Enqueued(thread_infos, i, TextEvents(uuid, content))
                /\ workers' = Stepped(w, "filtered", content, 1, "running")
    /\ UNCHANGED <<agui_threads, streams, n_sends, ui_vars>>

\* visit(message) for a message the filter rejects: "return None".
visit_filtered(w, content) ==
    /\ MayVisit(w)
    /\ workers' = Stepped(w, "filtered", content, 0, "running")
    /\ UNCHANGED <<agui_threads, thread_infos, streams, n_sends, ui_vars>>

\* visit(message) of an adapter made with filter=without_customer_messages,
\* for an autogen text from this sender.
visit(w, sender, content) ==
    IF without_customer_messages("text", sender)
    THEN visit_text(w, content)
    ELSE visit_filtered(w, content)

\* The tools hitl_workflow registers.
ToolNames == {"lookup_member", "create_itinerary"}

\* f"Executing tool: {tool_name}" and f"Completed tool: {tool_name}"
ExecutingTool(tool_name) ==
    IF tool_name = "lookup_member" THEN "Executing tool: lookup_member"
    ELSE "Executing tool: create_itinerary"

CompletedTool(tool_name) ==
    IF tool_name = "lookup_member" THEN "Completed tool: lookup_member"
    ELSE "Completed tool: create_itinerary"

ToolStartDelta(tool_name) ==
    <<Op("replace", "/status/phase", "executing"),
      Op("replace", "/agent/current_task", ExecutingTool(tool_name)),
      Op("replace", "/ui/showProgress", TRUE)>>

ToolCompleteDelta(state, uuid, tool_name) ==
    LET conversation == DictGet(state, "conversation", EmptyDict)
        entry == [id |-> uuid, name |-> tool_name, status |-> "completed"]
    IN  <<Op("replace", "/status/phase", "tool_complete"),
          Op("replace", "/agent/current_task", CompletedTool(tool_name)),
          Op("replace", "/ui/showProgress", FALSE),
          IF "tools" \in DOMAIN conversation
          THEN Op("add", "/conversation/tools/-", entry)
          ELSE Op("add", "/conversation/tools", <<entry>>)>>

\* What visit_tool_call enqueues before json.loads.
ToolCallHead(uuid, tool_call_id, tool_name) ==
    <<StateDeltaEvent(ToolStartDelta(tool_name)),
      ToolCallStartEvent(uuid, tool_call_id, tool_name)>>

\* What it enqueues after json.loads returned.
ToolCallTail(state, uuid, tool_call_id, tool_name, arguments) ==
    <<ToolCallArgsEvent(uuid, tool_call_id, tool_name, JsonLoads(arguments)),
      ToolCallEndEvent(uuid, tool_call_id, tool_name),
      StateDeltaEvent(ToolCompleteDelta(state, uuid, tool_name))>>

\* visit_tool_call(message): tool_calls[0] names tool_name with these
\* arguments (a JSON string).
visit_tool_call(w, tool_name, arguments) ==
    /\ MayVisit(w)
    /\ LET i == ThreadOf(w)
           token == workers[w].workflow_uuid
           uuid == Uuid4("message", token, workers[w].n_uuid + 1)
           tool_call_id == Uuid4("call", token, workers[w].n_uuid + 2)
       IN  IF i = 0 THEN VisitRaises(w, "tool_call", arguments)
           ELSE IF ~JsonParses(arguments)
           THEN \* json.JSONDecodeError
                /\ thread_infos' = Enqueued(thread_infos, i,
                      ToolCallHead(uuid, tool_call_id, tool_name))
                /\ workers' = Stepped(w, "tool_call", arguments, 2, "failed")
           ELSE /\ thread_infos' = Enqueued(thread_infos, i,
                      ToolCallHead(uuid, tool_call_id, tool_name) \o
                      ToolCallTail(thread_infos[i].state, uuid, tool_call_id,
                                   tool_name, arguments))
                /\ workers' = Stepped(w, "tool_call", arguments, 2, "running")
    /\ UNCHANGED <<agui_threads, streams, n_sends, ui_vars>>

\* The content visit_input_request sends in place of the prompt.
InputRequestRule == <<"________________________________\n">>

InputRequestEvents(uuid, thread_id, run_id) ==
    <<TextMessageStartEvent(uuid),
      TextMessageContentEvent(uuid, InputRequestRule),
      TextMessageEndEvent(uuid),
      RunFinishedEvent(thread_id, run_id)>>

\* visit_input_request(message) up to "await input_queue.get()".
visit_input_request(w, prompt) ==
    /\ MayVisit(w)
    /\ LET i == ThreadOf(w)
           uuid == Uuid4("message", workers[w].workflow_uuid,
                         workers[w].n_uuid + 1)
       IN  IF i = 0 THEN VisitRaises(w, "input_request", prompt)
           ELSE /\ thread_infos' = Enqueued(thread_infos, i,
                      InputRequestEvents(uuid, thread_infos[i].thread_id,
                                         thread_infos[i].run_id))
                /\ workers' = [Stepped(w, "input_request", prompt, 1,
                                       "input_request")
                                 EXCEPT ![w].thread_info = i]
    /\ UNCHANGED <<agui_threads, streams, n_sends, ui_vars>>

\* visit_input_request from the return of input_queue.get() on:
\* message.content.respond(response).
resume_input_request(w) ==
    /\ workers[w].pc = "input_request"
    /\ LET i == workers[w].thread_info
           q == thread_infos[i].input_queue
       IN  /\ q # << >>
           /\ thread_infos' = [thread_infos EXCEPT ![i].input_queue = Tail(q)]
           /\ workers' = [workers EXCEPT
                 ![w].pc = "running",
                 ![w].log = Answered(@, Head(q), EffectiveAnswer(Head(q)))]
    /\ UNCHANGED <<agui_threads, streams, n_semantic, n_sends, ui_vars>>

RunCompletionEvents(thread_id, new_run_id) ==
    <<RunStartedEvent(thread_id, new_run_id),
      CustomEvent("thread_over"),
      RunFinishedEvent(thread_id, new_run_id)>>

\* visit_run_completion(message)
visit_run_completion(w) ==
    /\ MayVisit(w)
    /\ LET i == ThreadOf(w)
           new_run_id == Uuid4("run", workers[w].workflow_uuid,
                               workers[w].n_uuid + 1)
       IN  IF i = 0 THEN VisitRaises(w, "run_completion", None)
           ELSE /\ thread_infos' = Enqueued(thread_infos, i,
                      RunCompletionEvents(thread_infos[i].thread_id,
                                          new_run_id))
                /\ workers' = Stepped(w, "run_completion", None, 1, "running")
    /\ UNCHANGED <<agui_threads, streams, n_sends, ui_vars>>

\* self.provider.run(...) returns: the workflow is over.
WorkerReturn(w) ==
    /\ workers[w].pc = "running"
    /\ workers' = [workers EXCEPT ![w].pc = "returned"]
    /\ UNCHANGED <<agui_threads, thread_infos, streams, n_semantic, n_sends, ui_vars>>

\* self.provider.run(...) raises on its own: the task ends with the
\* exception, which nothing awaits.
WorkerFail(w) ==
    /\ workers[w].pc = "running"
    /\ workers' = [workers EXCEPT ![w].pc = "failed"]
    /\ UNCHANGED <<agui_threads, thread_infos, streams, n_semantic, n_sends, ui_vars>>

(* --------------------------- specification ---------------------------- *)

\* Texts handed to send_to_thread.
Messages == {"ping"}

\* The client of a thread opens a request only once its earlier streams
\* on that thread have ended.
ClientWaited(thread_id) ==
    \A s \in 1..Len(streams) :
        streams[s].thread_id = thread_id => streams[s].pc \in Terminal

\* The thread id the client of Spec uses.
Thread1 == "T1"

\* One client on one thread id, which waits for a stream to end before its
\* next request; workers that hand over any semantic events.
Next ==
    \/ \E m \in LastMessages :
          /\ ClientWaited(Thread1)
          /\ Len(streams) < MaxSequential
          /\ run_agent(Thread1, m)
    \/ \E s \in 1..Len(streams) : StreamStart(s)
    \/ \E s \in 1..Len(streams) : StreamSnapshot(s)
    \/ \E s \in 1..Len(streams) : StreamProcessing(s)
    \/ \E s \in 1..Len(streams) : StreamCheck(s)
    \/ \E s \in 1..Len(streams) : StreamTimeout(s)
    \/ \E s \in 1..Len(streams) : StreamGet(s)
    \/ \E s \in 1..Len(streams) : StreamFinish(s)
    \/ \E s \in 1..Len(streams) : StreamOverEvent(s)
    \/ \E s \in 1..Len(streams) : StreamOverFinish(s)
    \/ \E s \in 1..Len(streams) : StreamOverEnd(s)
    \/ \E s \in 1..Len(streams) : ClientDisconnect(s)
    \/ \E w \in 1..Len(workers), b \in Bodies : visit_text_message(w, b)
    \/ \E w \in 1..Len(workers), p \in Prompts : visit_text_input(w, p)
    \/ \E w \in 1..Len(workers) : resume_text_input(w)
    \/ \E w \in 1..Len(workers), b \in Bodies : visit_text(w, b)
    \/ \E w \in 1..Len(workers), n \in ToolNames, a \in ArgPayloads :
          visit_tool_call(w, n, a)
    \/ \E w \in 1..Len(workers), p \in Prompts \ {<< >>} :
          visit_input_request(w, p)
    \/ \E w \in 1..Len(workers) : resume_input_request(w)
    \/ \E w \in 1..Len(workers) : visit_run_completion(w)
    \/ \E w \in 1..Len(workers) : WorkerReturn(w)
    \/ \E w \in 1..Len(workers) : WorkerFail(w)

Spec == Init /\ [][Next]_vars

\* Any client on any thread id, with requests that overlap; workers whose
\* events are the input request of hitl_workflow and the run completion.
NextOverlapping ==
    \/ \E t \in ThreadIds, m \in LastMessages :
          Len(streams) < MaxOverlapping /\ run_agent(t, m)
    \/ \E s \in 1..Len(streams) : StreamStart(s)
    \/ \E s \in 1..Len(streams) : StreamSnapshot(s)
    \/ \E s \in 1..Len(streams) : StreamProcessing(s)
    \/ \E s \in 1..Len(streams) : StreamCheck(s)
    \/ \E s \in 1..Len(streams) : StreamGet(s)
    \/ \E s \in 1..Len(streams) : StreamFinish(s)
    \/ \E s \in 1..Len(streams) : StreamOverEvent(s)
    \/ \E s \in 1..Len(streams) : StreamOverFinish(s)
    \/ \E s \in 1..Len(streams) : StreamOverEnd(s)
    \/ \E w \in 1..Len(workers) : visit_text_input(w, INITIAL_MESSAGE)
    \/ \E w \in 1..Len(workers) : resume_text_input(w)
    \/ \E w \in 1..Len(workers) : visit_run_completion(w)

OverlappingSpec == Init /\ [][NextOverlapping]_vars

\* One thread id, requests on it at any time, each delivering a value or
\* none; a worker that makes input requests of both kinds.  The generators
\* are run up to their drain loop: they do not touch the inbound queue.
NextDelivery ==
    \/ \E m \in LastMessages : run_agent(Thread1, m)
    \/ \E s \in 1..Len(streams) : StreamStart(s)
    \/ \E s \in 1..Len(streams) : StreamSnapshot(s)
    \/ \E s \in 1..Len(streams) : StreamProcessing(s)
    \/ \E w \in 1..Len(workers) : visit_text_input(w, INITIAL_MESSAGE)
    \/ \E w \in 1..Len(workers) : resume_text_input(w)
    \/ \E w \in 1..Len(workers) : visit_input_request(w, INITIAL_MESSAGE)
    \/ \E w \in 1..Len(workers) : resume_input_request(w)

DeliverySpec == Init /\ [][NextDelivery]_vars

\* Any thread id, requests that overlap, and a host that retires thread ids
\* at any time, registered or not, any number of times.  The generators are
\* run up to their drain loop.
NextRetire ==
    \/ \E t \in ThreadIds, m \in LastMessages :
          Len(streams) < MaxOverlapping /\ run_agent(t, m)
    \/ \E t \in ThreadIds : end_of_thread(t)
    \/ \E s \in 1..Len(streams) : StreamStart(s)
    \/ \E s \in 1..Len(streams) : StreamSnapshot(s)
    \/ \E s \in 1..Len(streams) : StreamProcessing(s)
    \/ \E w \in 1..Len(workers), b \in Bodies : visit_text_message(w, b)

RetireSpec == Init /\ [][NextRetire]_vars

\* The adapter of hitl_workflow, made with its filter: one client on one
\* thread id, a worker whose texts come from the customer or from the travel
\* agent and pass through visit, and whose fastagency texts pass as they are.
NextFiltered ==
    \/ \E m \in LastMessages :
          /\ ClientWaited(Thread1)
          /\ Len(streams) < MaxSequential
          /\ run_agent(Thread1, m)
    \/ \E s \in 1..Len(streams) : StreamStart(s)
    \/ \E s \in 1..Len(streams) : StreamSnapshot(s)
    \/ \E s \in 1..Len(streams) : StreamProcessing(s)
    \/ \E s \in 1..Len(streams) : StreamCheck(s)
    \/ \E s \in 1..Len(streams) : StreamTimeout(s)
    \/ \E s \in 1..Len(streams) : StreamGet(s)
    \/ \E s \in 1..Len(streams) : ClientDisconnect(s)
    \/ \E w \in 1..Len(workers), a \in Senders, b \in Bodies : visit(w, a, b)
    \/ \E w \in 1..Len(workers), b \in Bodies : visit_text_message(w, b)

FilteredSpec == Init /\ [][NextFiltered]_vars

\* Two clients, each with one request on a thread id of its own, and a host
\* that puts a text on a thread's outbound queue with send_to_thread;
\* workers that hand over fastagency texts.
NextSending ==
    \/ \E t \in ThreadIds, m \in LastMessages :
          ~IsRegistered(t) /\ Len(streams) < MaxOverlapping /\ run_agent(t, m)
    \/ \E t \in ThreadIds, m \in Messages : send_to_thread(t, m)
    \/ \E s \in 1..Len(streams) : StreamStart(s)
    \/ \E s \in 1..Len(streams) : StreamSnapshot(s)
    \/ \E s \in 1..Len(streams) : StreamProcessing(s)
    \/ \E s \in 1..Len(streams) : StreamCheck(s)
    \/ \E s \in 1..Len(streams) : StreamGet(s)
    \/ \E s \in 1..Len(streams) : StreamErrorFinish(s)
    \/ \E w \in 1..Len(workers), b \in Bodies : visit_text_message(w, b)

SendingSpec == Init /\ [][NextSending]_vars

\* The host of NextRetire, which also puts texts on threads' outbound
\* queues with send_to_thread, on registered and unregistered ids.
NextHost ==
    \/ NextRetire
    \/ \E t \in ThreadIds, m \in Messages : send_to_thread(t, m)

HostSpec == Init /\ [][NextHost]_vars

\* Several threads at once: clients on any thread id, each waiting for its
\* thread's stream to end before its next request, and workers that hand
\* over fastagency texts and the input request of hitl_workflow.
NextConcurrent ==
    \/ \E t \in ThreadIds, m \in LastMessages :
          ClientWaited(t) /\ run_agent(t, m)
    \/ \E s \in 1..Len(streams) : StreamStart(s)
    \/ \E s \in 1..Len(streams) : StreamSnapshot(s)
    \/ \E s \in 1..Len(streams) : StreamProcessing(s)
    \/ \E s \in 1..Len(streams) : StreamCheck(s)
    \/ \E s \in 1..Len(streams) : StreamGet(s)
    \/ \E s \in 1..Len(streams) : StreamFinish(s)
    \/ \E w \in 1..Len(workers), b \in Bodies : visit_text_message(w, b)
    \/ \E w \in 1..Len(workers) : visit_text_input(w, INITIAL_MESSAGE)
    \/ \E w \in 1..Len(workers) : resume_text_input(w)

ConcurrentSpec == Init /\ [][NextConcurrent]_vars

(* ------------------------- reading a behaviour ------------------------ *)

Streams == 1..Len(streams)

Workers == 1..Len(workers)

\* The kinds of the events of a sequence, in order.
Kinds(events) == [k \in DOMAIN events |-> events[k].type]

\* The value a state-delta gives the path, None if it does not touch it.
RECURSIVE ValueAt(_, _)
ValueAt(delta, path) ==
    IF delta = << >> THEN None
    ELSE IF Head(delta).path = path THEN Head(delta).value
    ELSE ValueAt(Tail(delta), path)

\* Whether the event is a state-delta that sets status.phase to phase.
SetsPhase(ev, phase) ==
    /\ ev.type = "STATE_DELTA"
    /\ \E k \in DOMAIN ev.delta :
          ev.delta[k].path = "/status/phase" /\ ev.delta[k].value = phase

\* Whether the event is a state-delta with an operation op at path.
HasOp(ev, op, path) ==
    /\ ev.type = "STATE_DELTA"
    /\ \E k \in DOMAIN ev.delta :
          ev.delta[k].op = op /\ ev.delta[k].path = path

\* Whether the event is a state-delta that sets the boolean at path to b.
SetsFlag(ev, path, b) ==
    /\ ev.type = "STATE_DELTA"
    /\ \E k \in DOMAIN ev.delta :
          ev.delta[k].path = path /\ ev.delta[k].value = b

\* The worker launched for thread object i.
WorkerOf(i) ==
    CHOOSE w \in Workers :
        workers[w].workflow_uuid = thread_infos[i].workflow_id

\* The stream has emitted run-started.
Started(s) ==
    /\ streams[s].wire # << >>
    /\ streams[s].wire[1].type = "RUN_STARTED"

(* -------------------------------- C1 ---------------------------------- *)

\* A step of generator s other than its client's going away.
StreamStep(s) ==
    \/ StreamStart(s)
    \/ StreamSnapshot(s)
    \/ StreamProcessing(s)
    \/ StreamCheck(s)
    \/ StreamTimeout(s)
    \/ StreamGet(s)
    \/ StreamFinish(s)
    \/ StreamOverEvent(s)
    \/ StreamOverFinish(s)
    \/ StreamOverEnd(s)

\* A step of worker w: it hands over a semantic event, an input request of
\* its returns, or it ends.
WorkerStep(w) ==
    \/ \E body \in Bodies : visit_text_message(w, body)
    \/ \E prompt \in Prompts : visit_text_input(w, prompt)
    \/ resume_text_input(w)
    \/ \E body \in Bodies : visit_text(w, body)
    \/ \E name \in ToolNames, args \in ArgPayloads :
          visit_tool_call(w, name, args)
    \/ \E prompt \in Prompts : visit_input_request(w, prompt)
    \/ resume_input_request(w)
    \/ visit_run_completion(w)
    \/ WorkerReturn(w)
    \/ WorkerFail(w)

\* The event loop runs every task that is ready and the worker's thread
\* runs: a generator that can take a step eventually does, and so does a
\* worker.
FairSpec ==
    /\ Spec
    /\ \A s \in 1..MaxRequests : WF_vars(s \in Streams /\ StreamStep(s))
    /\ \A w \in 1..MaxRequests : WF_vars(w \in Workers /\ WorkerStep(w))

\* The stream ended with a run-finished as its last event.
EndedWithRunFinished(s) ==
    /\ streams[s].pc \in Terminal
    /\ streams[s].wire # << >>
    /\ streams[s].wire[Len(streams[s].wire)].type = "RUN_FINISHED"

\* C1: every stream that has emitted run-started and whose client stays
\* connected eventually emits run-finished and ends, whatever the worker
\* does: from run-started on, the stream later has ended on a run-finished
\* or its client has gone away.
C1_EventuallyRunFinished ==
    \A s \in 1..MaxRequests :
        [](s \in Streams /\ Started(s) =>
              <>(s \in Streams /\
                 (EndedWithRunFinished(s) \/ ~streams[s].connected)))

(* -------------------------------- C2 ---------------------------------- *)

\* The synthetic completion delta, written out.
IsCompletionDelta(ev) ==
    /\ SetsPhase(ev, "completed")
    /\ SetsFlag(ev, "/ui/loading", FALSE)
    /\ HasOp(ev, "replace", "/agent/current_task")
    /\ ValueAt(ev.delta, "/agent/current_task") = None

\* C2: a run-finished taken from the outbound queue is forwarded right
\* after a synthetic delta that sets status.phase to "completed" and clears
\* ui.loading and agent.current_task, and it is the last event of its
\* stream.
C2_CompletionDeltaThenRunFinished ==
    \A s \in Streams :
        LET wire == streams[s].wire
            n == Len(wire)
        IN  /\ streams[s].pc = "finish" =>
                  /\ streams[s].message.type = "RUN_FINISHED"
                  /\ IsCompletionDelta(wire[n])
                  /\ \A k \in 1..n : wire[k].type # "RUN_FINISHED"
            /\ \A k \in 1..n : wire[k].type = "RUN_FINISHED" =>
                  /\ k = n
                  /\ k > 1
                  /\ streams[s].pc \in {"FINISHED", "ERRORED", "over_end"}
                  /\ wire[k - 1].type = "STATE_DELTA" =>
                        /\ IsCompletionDelta(wire[k - 1])
                        /\ wire[k] = streams[s].message

\* C2's case: a stream ended by a run-finished it took from the queue.
C2_Witness ==
    \E s \in Streams :
        /\ streams[s].pc = "FINISHED"
        /\ streams[s].message.type = "RUN_FINISHED"
        /\ Len(streams[s].wire) > 4

(* -------------------------------- C3 ---------------------------------- *)

IsThreadOverEvent(ev) == ev.type = "CUSTOM" /\ ev.name = "thread_over"

\* The delta the controller puts before a thread_over event.
IsThreadOverDelta(ev) ==
    /\ SetsPhase(ev, "thread_completed")
    /\ SetsFlag(ev, "/conversation/completed", TRUE)
    /\ SetsFlag(ev, "/ui/loading", FALSE)

\* The stream ended on a thread_over event.
EndedByThreadOver(s) ==
    /\ streams[s].pc = "FINISHED"
    /\ IsThreadOverEvent(streams[s].message)

\* C3: on the custom thread_over event the stream emits a synthetic
\* completion delta, the event, and a synthesized run-finished, in this
\* order and as its last events; it then retires the thread: the object is
\* inactive and, until a later request registers the id anew, the id is in
\* no registry entry.
C3_ThreadOverRetires ==
    \A s \in Streams :
        LET wire == streams[s].wire
            n == Len(wire)
            i == streams[s].thread_info
        IN  /\ \A k \in 1..n : IsThreadOverEvent(wire[k]) =>
                  /\ k > 1
                  /\ IsThreadOverDelta(wire[k - 1])
                  /\ k >= n - 1
                  /\ k = n => streams[s].pc = "over_finish"
                  /\ k = n - 1 =>
                        /\ wire[n].type = "RUN_FINISHED"
                        /\ wire[n].thread_id = streams[s].thread_id
                        /\ streams[s].pc \in {"over_end", "FINISHED"}
            /\ streams[s].pc \in {"over_event", "over_finish", "over_end"} =>
                  /\ IsThreadOverEvent(streams[s].message)
                  /\ thread_infos[i].active
            /\ EndedByThreadOver(s) =>
                  /\ n >= 3
                  /\ IsThreadOverEvent(wire[n - 1])
                  /\ ~thread_infos[i].active
                  /\ \A t \in DOMAIN agui_threads : agui_threads[t] # i
                  /\ (\A s2 \in Streams :
                         s2 > s => streams[s2].thread_id # streams[s].thread_id)
                     => get_thread_info_of_agui(streams[s].thread_id) = 0

\* C3's case: a stream ended on thread_over and the thread is retired.
C3_Witness ==
    \E s \in Streams :
        /\ EndedByThreadOver(s)
        /\ streams[s].thread_id \notin DOMAIN agui_threads

(* -------------------------------- C4 ---------------------------------- *)

\* C4: the stream of a request that created its thread starts with
\* run-started, the full initial snapshot and a delta that sets
\* status.phase to "processing"; it takes nothing from the outbound queue
\* before it has emitted the three.
C4_NewThreadOpening ==
    \A s \in Streams :
        streams[s].created =>
            LET wire == streams[s].wire
                n == Len(wire)
            IN  /\ n >= 1 => wire[1].type = "RUN_STARTED"
                /\ n >= 2 =>
                      /\ wire[2].type = "STATE_SNAPSHOT"
                      /\ wire[2].snapshot.status.phase = "initialized"
                      /\ Len(wire[2].snapshot.conversation.messages) = 1
                      /\ wire[2].snapshot.conversation.tools = << >>
                /\ n >= 3 => SetsPhase(wire[3], "processing")
                /\ n < 3 =>
                      /\ streams[s].pc \in
                            {"init", "snapshot", "processing", "NOT_FOUND"}
                      /\ streams[s].message = NoMessage

\* C4's case: a new thread's stream that went on to forward queue events.
C4_Witness ==
    \E s \in Streams :
        /\ streams[s].created
        /\ Len(streams[s].wire) > 3
        /\ streams[s].wire[4].type = "TEXT_MESSAGE_START"

(* -------------------------------- C5 ---------------------------------- *)

\* C5: the stream of a request on an already registered thread emits no
\* state-snapshot.
C5_ResumeEmitsNoSnapshot ==
    \A s \in Streams :
        ~streams[s].created =>
            \A k \in DOMAIN streams[s].wire :
                streams[s].wire[k].type # "STATE_SNAPSHOT"

(* -------------------------------- C6 ---------------------------------- *)

\* Scenario A: the stream of the request that created the thread has ended
\* on a run-finished, and the first thing the thread's worker did was an
\* input request (visit_text_input) with a non-empty prompt, as
\* hitl_workflow's is.  In Spec the client makes no other request on the
\* thread while this stream is open.
ScenarioA(s) ==
    /\ streams[s].created
    /\ streams[s].pc = "FINISHED"
    /\ LET log == workers[WorkerOf(streams[s].thread_info)].log
       IN  /\ log # << >>
           /\ log[1].kind = "text_input"
           /\ log[1].arg # << >>

\* C6 as claimed: in scenario A the stream is exactly run-started,
\* state-snapshot, state-delta(processing), text start, content, end,
\* state-delta(awaiting_input), run-finished.
C6_ScenarioA_AsClaimed ==
    \A s \in Streams :
        ScenarioA(s) =>
            LET wire == streams[s].wire
            IN  /\ Kinds(wire) =
                     <<"RUN_STARTED", "STATE_SNAPSHOT", "STATE_DELTA",
                       "TEXT_MESSAGE_START", "TEXT_MESSAGE_CONTENT",
                       "TEXT_MESSAGE_END", "STATE_DELTA", "RUN_FINISHED">>
                /\ SetsPhase(wire[3], "processing")
                /\ SetsPhase(wire[7], "awaiting_input")

\* C6 amended: in scenario A the stream is exactly run-started,
\* state-snapshot, state-delta(processing), state-delta(awaiting_input),
\* text start, content (the prompt), end, state-delta(input_received, with
\* the placeholder entry), state-delta(completed), run-finished.
C6_ScenarioA ==
    \A s \in Streams :
        ScenarioA(s) =>
            LET wire == streams[s].wire
                log == workers[WorkerOf(streams[s].thread_info)].log
            IN  /\ Kinds(wire) =
                     <<"RUN_STARTED", "STATE_SNAPSHOT", "STATE_DELTA",
                       "STATE_DELTA", "TEXT_MESSAGE_START",
                       "TEXT_MESSAGE_CONTENT", "TEXT_MESSAGE_END",
                       "STATE_DELTA", "STATE_DELTA", "RUN_FINISHED">>
                /\ SetsPhase(wire[3], "processing")
                /\ SetsPhase(wire[4], "awaiting_input")
                /\ SetsFlag(wire[4], "/ui/showInput", TRUE)
                /\ wire[6].message_id = wire[5].message_id
                /\ wire[7].message_id = wire[5].message_id
                /\ Len(wire[6].delta) = Len(log[1].arg)
                /\ \A k \in DOMAIN log[1].arg :
                      log[1].arg[k] # PressEnter =>
                          wire[6].delta[k] = log[1].arg[k]
                /\ SetsPhase(wire[8], "input_received")
                /\ HasOp(wire[8], "add", "/conversation/messages/-")
                /\ SetsPhase(wire[9], "completed")
                /\ wire[10].thread_id = streams[s].thread_id

\* C6's case: scenario A has run to its end.
C6_Witness ==
    \E s \in Streams :
        /\ ScenarioA(s)
        /\ workers[WorkerOf(streams[s].thread_info)].log[1].arg
              = INITIAL_MESSAGE

(* -------------------------------- C7 ---------------------------------- *)

\* One worker per thread object ever made, carrying its token, so one per
\* registered thread.
OneWorkerPerThread ==
    /\ Len(workers) = Len(thread_infos)
    /\ \A i \in 1..Len(thread_infos) :
          Cardinality({w \in Workers :
              workers[w].workflow_uuid = thread_infos[i].workflow_id}) = 1
    /\ \A t \in DOMAIN agui_threads :
          Cardinality({w \in Workers :
              workers[w].workflow_uuid =
                  thread_infos[agui_threads[t]].workflow_id}) = 1

\* A request on a registered thread id launches nothing and leaves the
\* registry alone; a request on an unregistered one registers it and
\* launches exactly one worker, for the new thread.
RequestLaunches ==
    Len(streams') = Len(streams) + 1 =>
        LET t == streams'[Len(streams')].thread_id
        IN  IF t \in DOMAIN agui_threads
            THEN /\ workers' = workers
                 /\ agui_threads' = agui_threads
                 /\ Len(thread_infos') = Len(thread_infos)
                 /\ ~streams'[Len(streams')].created
            ELSE /\ Len(workers') = Len(workers) + 1
                 /\ SubSeq(workers', 1, Len(workers)) = workers
                 /\ t \in DOMAIN agui_threads'
                 /\ workers'[Len(workers')].workflow_uuid =
                       thread_infos'[agui_threads'[t]].workflow_id
                 /\ workers'[Len(workers')].pc = "running"

\* Only a request launches a worker.
OnlyRequestsLaunch ==
    Len(streams') = Len(streams) => Len(workers') = Len(workers)

\* C7: a worker is launched exactly once, when a thread id is first
\* registered; a later request for a registered thread id is a resumption
\* and launches none; each registered thread has exactly one worker.
C7_WorkerLaunchedOnce ==
    /\ []OneWorkerPerThread
    /\ [][RequestLaunches /\ OnlyRequestsLaunch]_vars

\* C7's case: a resumption request was served while the thread's first
\* stream was still open, and there is still one worker.
C7_Witness ==
    \E s \in Streams, r \in Streams :
        /\ streams[s].created
        /\ streams[s].pc \notin Terminal
        /\ ~streams[r].created
        /\ streams[r].thread_id = streams[s].thread_id
        /\ streams[r].thread_id \in DOMAIN agui_threads
        /\ Len(workers) = 1

(* -------------------------------- C8 ---------------------------------- *)

\* Worker w hands an input request to visit_text_input in this step, and the
\* handler finds the worker's thread.
TextInputStep(w) ==
    /\ Len(workers'[w].log) = Len(workers[w].log) + 1
    /\ workers'[w].log[Len(workers'[w].log)].kind = "text_input"
    /\ ThreadOf(w) # 0

\* What a step appends to the outbound queue of thread object i.
Appended(i) ==
    SubSeq(thread_infos'[i].out_queue,
           Len(thread_infos[i].out_queue) + 1,
           Len(thread_infos'[i].out_queue))

\* C8: an input request enqueues, in order, a delta (awaiting_input,
\* showInput true), text start, content, end, a delta (placeholder user
\* entry, showInput false) and a run-finished, then suspends on the inbound
\* queue, and enqueues nothing more while it is suspended.
C8_InputRequestEnqueues ==
    [][\A w \in Workers :
          /\ TextInputStep(w) =>
                LET added == Appended(ThreadOf(w))
                IN  /\ Kinds(added) =
                         <<"STATE_DELTA", "TEXT_MESSAGE_START",
                           "TEXT_MESSAGE_CONTENT", "TEXT_MESSAGE_END",
                           "STATE_DELTA", "RUN_FINISHED">>
                    /\ SetsPhase(added[1], "awaiting_input")
                    /\ SetsFlag(added[1], "/ui/showInput", TRUE)
                    /\ HasOp(added[5], "add", "/conversation/messages/-")
                    /\ SetsFlag(added[5], "/ui/showInput", FALSE)
                    /\ workers'[w].pc = "text_input"
          /\ (workers[w].pc = "text_input" /\ workers'[w].pc = "text_input")
                => Appended(workers[w].thread_info) = << >>
      ]_vars

(* -------------------------------- C9 ---------------------------------- *)

\* Worker w's suspended input request returns in this step.
InputReturns(w) ==
    /\ workers[w].pc \in {"text_input", "input_request"}
    /\ workers'[w].pc # workers[w].pc

\* C9: the answer an input request returns to the worker is the value taken
\* from the head of the thread's inbound queue, with "continue" replaced by
\* the empty string and every other value as it is.
C9_AnswerIsDequeuedValue ==
    [][\A w \in Workers :
          InputReturns(w) =>
              LET q == thread_infos[workers[w].thread_info].input_queue
                  log == workers'[w].log
              IN  /\ q # << >>
                  /\ thread_infos'[workers[w].thread_info].input_queue
                        = Tail(q)
                  /\ log[Len(log)].received = Head(q)
                  /\ log[Len(log)].answer =
                        (IF Head(q) = "continue" THEN "" ELSE Head(q))
                  /\ workers'[w].pc = "running"
      ]_vars

\* C9's case: "continue" was delivered and the worker got the empty string,
\* in a visit_text_input and in a visit_input_request.
C9_Witness ==
    \E w \in Workers :
        \E k \in DOMAIN workers[w].log :
            /\ workers[w].log[k].kind \in {"text_input", "input_request"}
            /\ workers[w].log[k].received = "continue"
            /\ workers[w].log[k].answer = ""

(* -------------------------------- C10 --------------------------------- *)

\* The delta an input request enqueues once it has its answer.
IsResumeDelta(ev) ==
    /\ ev.type = "STATE_DELTA"
    /\ Len(ev.delta) = 1
    /\ ev.delta[1].path \in {"/conversation/messages",
                             "/conversation/messages/-1/content"}

\* The transcript the client holds after the first k events of a thread.
ClientMessages(sent, k) == ClientDocument(sent, k).doc.conversation.messages

\* C10: the delta emitted on resume changes only the content of the last
\* transcript entry: applied by the client, it keeps every entry the client
\* held; the whole-list add is used only when the client holds no entry.
C10_ResumeKeepsTranscript ==
    \A i \in 1..Len(thread_infos) :
        LET sent == thread_infos[i].sent_messages
        IN  \A k \in 1..Len(sent) :
                IsResumeDelta(sent[k]) =>
                    LET before == ClientMessages(sent, k - 1)
                        after == ClientMessages(sent, k)
                    IN  /\ Len(after) = Len(before)
                        /\ \A j \in 1..(Len(before) - 1) :
                              after[j] = before[j]
                        /\ before # << >> =>
                              /\ after[Len(after)].id = before[Len(before)].id
                              /\ after[Len(after)].role = "user"
                        /\ sent[k].delta[1].path = "/conversation/messages"
                              => before = << >>

(* -------------------------------- C11 --------------------------------- *)

\* The values the input requests of a worker have read, in order.
RECURSIVE Received(_)
Received(log) ==
    IF log = << >> THEN << >>
    ELSE IF /\ Head(log).kind \in {"text_input", "input_request"}
            /\ Head(log).received # None
         THEN <<Head(log).received>> \o Received(Tail(log))
         ELSE Received(Tail(log))

\* C11: the inbound queue of a thread is FIFO and lossless: the values
\* delivered to a thread are, in order, the values its input requests have
\* read followed by the values still buffered, so the k-th input request
\* that reads gets the k-th delivered value and none is overwritten or lost.
C11_InboundFifo ==
    \A i \in 1..Len(thread_infos) :
        thread_infos[i].delivered =
            Received(workers[WorkerOf(i)].log) \o thread_infos[i].input_queue

\* C11's case: two different values were delivered; the first input request
\* has read the first, and the second stays buffered while no input request
\* is suspended.
C11_Witness ==
    \E i \in 1..Len(thread_infos) :
        /\ Len(thread_infos[i].delivered) = 2
        /\ thread_infos[i].delivered[1] # thread_infos[i].delivered[2]
        /\ thread_infos[i].input_queue = <<thread_infos[i].delivered[2]>>
        /\ workers[WorkerOf(i)].pc = "running"
        /\ Len(workers[WorkerOf(i)].log) = 1
        /\ workers[WorkerOf(i)].log[1].received = thread_infos[i].delivered[1]

(* -------------------------------- C12 --------------------------------- *)

\* Worker w hands a tool invocation with well-formed arguments to
\* visit_tool_call in this step, and the handler finds the worker's thread.
ToolCallStep(w) ==
    /\ Len(workers'[w].log) = Len(workers[w].log) + 1
    /\ workers'[w].log[Len(workers'[w].log)].kind = "tool_call"
    /\ workers'[w].log[Len(workers'[w].log)].arg = WellFormedArgs
    /\ ThreadOf(w) # 0

\* The tool-call ids of the tool events put on any outbound queue so far.
ToolCallIds ==
    UNION {{thread_infos[i].enqueued[k].toolCallId :
               k \in {j \in 1..Len(thread_infos[i].enqueued) :
                        thread_infos[i].enqueued[j].type \in
                           {"TOOL_CALL_START", "TOOL_CALL_ARGS",
                            "TOOL_CALL_END"}}} :
           i \in 1..Len(thread_infos)}

\* C12: a tool invocation with well-formed arguments enqueues, in order, a
\* delta with phase "executing", one tool-call-start, one tool-call-args
\* with the parsed argument map, one tool-call-end, the three with one
\* tool-call id no earlier event carries, and a delta with phase
\* "tool_complete".
C12_ToolCallEnqueues ==
    [][\A w \in Workers :
          ToolCallStep(w) =>
              LET added == Appended(ThreadOf(w))
              IN  /\ Kinds(added) =
                       <<"STATE_DELTA", "TOOL_CALL_START", "TOOL_CALL_ARGS",
                         "TOOL_CALL_END", "STATE_DELTA">>
                  /\ SetsPhase(added[1], "executing")
                  /\ added[3].args = [member_id |-> "P12345"]
                  /\ added[3].toolCallId = added[2].toolCallId
                  /\ added[4].toolCallId = added[2].toolCallId
                  /\ added[2].toolCallId \notin ToolCallIds
                  /\ SetsPhase(added[5], "tool_complete")
                  /\ workers'[w].pc = "running"
      ]_vars

\* C12's case: two tool invocations with well-formed arguments were handled
\* on one thread.
C12_Witness ==
    \E w \in Workers :
        /\ Len(workers[w].log) = 2
        /\ \A k \in 1..2 : /\ workers[w].log[k].kind = "tool_call"
                           /\ workers[w].log[k].arg = WellFormedArgs
        /\ Cardinality(ToolCallIds) = 2

(* -------------------------------- C13 --------------------------------- *)

\* The worker of thread object i ended in visit_tool_call on a payload that
\* does not parse.
MalformedToolCall(i) ==
    LET log == workers[WorkerOf(i)].log
    IN  /\ log # << >>
        /\ log[Len(log)].kind = "tool_call"
        /\ log[Len(log)].arg = MalformedArgs

\* The events hold an error delta with a run-finished right after it.
ErrorThenRunFinished(events) ==
    \E k \in 1..(Len(events) - 1) :
        /\ SetsPhase(events[k], "error")
        /\ events[k + 1].type = "RUN_FINISHED"

\* C13: when a tool invocation carries a malformed argument payload, the
\* stream of the owning thread receives an error delta followed by a
\* run-finished: a stream that is open on the thread when the handler fails
\* later has emitted both, unless its client has gone away.
C13_MalformedArgsEndRun ==
    \A s \in 1..MaxRequests :
        [](/\ s \in Streams
           /\ streams[s].thread_info # 0
           /\ streams[s].pc \notin Terminal
           /\ MalformedToolCall(streams[s].thread_info)
           => <>(s \in Streams /\
                 (ErrorThenRunFinished(streams[s].wire)
                    \/ ~streams[s].connected)))

(* -------------------------------- C14 --------------------------------- *)

\* The id a start, content, args or end event is about.
EventId(ev) ==
    IF ev.type \in {"TOOL_CALL_START", "TOOL_CALL_ARGS", "TOOL_CALL_END"}
    THEN ev.toolCallId
    ELSE ev.message_id

\* The kind of event that ends what a start event starts, and the kind that
\* comes between them.
EndOf(type) ==
    IF type = "TOOL_CALL_START" THEN "TOOL_CALL_END" ELSE "TEXT_MESSAGE_END"

BodyOf(type) ==
    IF type = "TOOL_CALL_START" THEN "TOOL_CALL_ARGS"
    ELSE "TEXT_MESSAGE_CONTENT"

\* The positions after k of the events of this type about the id of events[k].
After(events, k, type) ==
    {e \in (k + 1)..Len(events) :
        /\ events[e].type = type
        /\ EventId(events[e]) = EventId(events[k])}

\* C14: on every outbound queue, every text-message-start or tool-call-start
\* is followed by exactly one end event for its id, with at most one
\* content or args event for that id in between.  A handler enqueues in one
\* step, so a start without its end stays without it.
C14_StartsAreEnded ==
    \A i \in 1..Len(thread_infos) :
        LET events == thread_infos[i].enqueued
        IN  \A k \in 1..Len(events) :
                events[k].type \in {"TEXT_MESSAGE_START", "TOOL_CALL_START"}
                => /\ Cardinality(After(events, k, EndOf(events[k].type))) = 1
                   /\ Cardinality(After(events, k, BodyOf(events[k].type)))
                         <= 1
                   /\ \A b \in After(events, k, BodyOf(events[k].type)) :
                      \A e \in After(events, k, EndOf(events[k].type)) :
                         b < e

(* -------------------------------- C15 --------------------------------- *)

\* Whether f can be had from e by leaving events out, keeping the order.
RECURSIVE IsSubsequence(_, _)
IsSubsequence(f, e) ==
    IF f = << >> THEN TRUE
    ELSE IF e = << >> THEN FALSE
    ELSE IF Head(f) = Head(e) THEN IsSubsequence(Tail(f), Tail(e))
    ELSE IsSubsequence(f, Tail(e))

\* C15: per thread, the events the generators have forwarded from the
\* outbound queue, in the order they were yielded across all streams of the
\* thread, are an order-preserving subsequence of the events enqueued.
C15_ForwardedInEnqueueOrder ==
    \A i \in 1..Len(thread_infos) :
        IsSubsequence(thread_infos[i].forwarded, thread_infos[i].enqueued)

(* -------------------------------- C16 --------------------------------- *)

\* The stream has ended on a run-finished it took from the outbound queue.
EndedOnRunFinished(s) ==
    /\ streams[s].pc = "FINISHED"
    /\ IsRunFinished(streams[s].message)

\* C16: once a stream has ended on a run-finished, the events that are or
\* come behind it in the thread's outbound queue are dropped: no generator
\* forwards an event of that thread any more.
C16_StaleEventsDropped ==
    [][\A s \in Streams :
          EndedOnRunFinished(s) =>
              thread_infos'[streams[s].thread_info].forwarded =
                  thread_infos[streams[s].thread_info].forwarded
      ]_vars

(* -------------------------------- C17 --------------------------------- *)

\* The generator finds its client gone in this step.
Abandons(s) ==
    streams[s].pc # "ABANDONED" /\ streams'[s].pc = "ABANDONED"

\* The messages leave the outbound queue of thread object i only from its
\* head, into a generator of that thread.
TakenFromHead(i) ==
    LET q == thread_infos[i].out_queue
        qq == thread_infos'[i].out_queue
    IN  \/ Len(qq) >= Len(q) /\ SubSeq(qq, 1, Len(q)) = q
        \/ /\ q # << >>
           /\ qq = Tail(q)
           /\ \E r \in Streams :
                 /\ streams[r].thread_info = i
                 /\ streams[r].pc = "get"
                 /\ streams'[r].message = Head(q)

ClientState(i) ==
    ClientDocument(thread_infos[i].sent_messages,
                   Len(thread_infos[i].sent_messages)).doc

\* C18: when a run has completed normally (its stream ended on a
\* run-finished), the state document the server holds for the thread equals
\* the document the client has from the snapshot and the deltas sent.
C18_ServerStateIsClientState ==
    \A s \in Streams :
        streams[s].pc = "FINISHED" =>
            thread_infos[streams[s].thread_info].state =
                ClientState(streams[s].thread_info)

(* -------------------------------- C19 --------------------------------- *)

\* The generator is in its drain loop.
Draining(s) ==
    streams[s].pc \in {"loop", "get", "finish", "over_event", "over_finish",
                       "over_end"}

\* C19: at every moment at most one generator is draining the outbound
\* queue of a thread.
C19_OneReaderPerThread ==
    \A s \in Streams, r \in Streams :
        (/\ s # r
         /\ Draining(s)
         /\ Draining(r))
        => streams[s].thread_info # streams[r].thread_info

(* -------------------------------- C20 --------------------------------- *)

\* C20: the run-started events that open two streams over one thread carry
\* different run ids.
C20_RunIdPerRequest ==
    \A s \in Streams, r \in Streams :
        (/\ s # r
         /\ Started(s)
         /\ Started(r)
         /\ streams[s].thread_info = streams[r].thread_info)
        => streams[s].wire[1].run_id # streams[r].wire[1].run_id

(* -------------------------------- C21 --------------------------------- *)

\* The run id of the last run-started among the first k events, None if
\* there is none.
RECURSIVE LastRunStarted(_, _)
LastRunStarted(events, k) ==
    IF k = 0 THEN None
    ELSE IF events[k].type = "RUN_STARTED" THEN events[k].run_id
    ELSE LastRunStarted(events, k - 1)

\* C21: on the wire of a stream that has ended on a run-finished, every
\* run-started with run id r is followed by a run-finished with run id r,
\* and every run-finished carries the run id of the most recent run-started
\* before it.
C21_RunsOpenAndCloseUnderOneId ==
    \A s \in Streams :
        streams[s].pc = "FINISHED" =>
            LET wire == streams[s].wire
            IN  /\ \A k \in DOMAIN wire :
                      wire[k].type = "RUN_STARTED" =>
                          \E j \in DOMAIN wire :
                              /\ j > k
                              /\ wire[j].type = "RUN_FINISHED"
                              /\ wire[j].run_id = wire[k].run_id
                /\ \A j \in DOMAIN wire :
                      wire[j].type = "RUN_FINISHED" =>
                          wire[j].run_id = LastRunStarted(wire, j - 1)

(* -------------------------------- C22 --------------------------------- *)

\* The step is a call end_of_thread(t).
Retires(t) ==
    /\ agui_threads' = end_of_thread_registry(t)
    /\ thread_infos' = end_of_thread_infos(t)
    /\ UNCHANGED <<workers, streams, n_semantic, n_sends, ui_vars>>

\* A second end_of_thread(t), called in the state the step leads to, would
\* leave the registry and every thread object as they are.
SecondRetireChangesNothing(t) ==
    /\ end_of_thread_registry(t)' = agui_threads'
    /\ end_of_thread_infos(t)' = thread_infos'

\* Retiring an id that is not registered changes nothing.
UnknownRetireChangesNothing ==
    \A t \in ThreadIds :
        t \notin DOMAIN agui_threads =>
            /\ end_of_thread_registry(t) = agui_threads
            /\ end_of_thread_infos(t) = thread_infos

\* C22: end_of_thread on a registered id marks its thread object inactive
\* and unregisters the id, so that a lookup of the id finds nothing and a
\* second end_of_thread on it changes nothing; end_of_thread on an id that
\* is not registered changes nothing.
C22_RetireIsIdempotent ==
    /\ []UnknownRetireChangesNothing
    /\ [][\A t \in ThreadIds :
            (t \in DOMAIN agui_threads /\ Retires(t)) =>
                /\ ~thread_infos'[agui_threads[t]].active
                /\ get_thread_info_of_agui(t)' = 0
                /\ SecondRetireChangesNothing(t)]_vars

\* A thread object that was retired by the host while its request's
\* generator had not yet looked it up, and whose id is not registered.
C22_Witness ==
    \E s \in Streams :
        /\ streams[s].pc = "init"
        /\ streams[s].created
        /\ streams[s].thread_id \notin DOMAIN agui_threads
        /\ \E i \in 1..Len(thread_infos) :
              /\ thread_infos[i].thread_id = streams[s].thread_id
              /\ ~thread_infos[i].active

(* -------------------------------- C23 --------------------------------- *)

\* No registered thread carries the correlation token of worker w.
TokenOfNoThread(w) ==
    \A t \in DOMAIN agui_threads :
        thread_infos[agui_threads[t]].workflow_id # workers[w].workflow_uuid

\* The step hands a semantic event of worker w to its handler.
Hands(w) == Len(workers'[w].log) = Len(workers[w].log) + 1

\* C23: when no registered thread carries a worker's correlation token, the
\* lookup by that token finds no thread, and a handler that the worker's
\* event starts ends in the error without enqueueing anything: no thread
\* object, registered or retired, changes.
C23_UnknownTokenRaises ==
    /\ [](\A w \in Workers :
             TokenOfNoThread(w) =>
                 get_thread_info_of_workflow(workers[w].workflow_uuid) = 0)
    /\ [][\A w \in Workers :
            (TokenOfNoThread(w) /\ Hands(w)) =>
                /\ workers'[w].pc = "failed"
                /\ thread_infos' = thread_infos]_vars

\* A worker whose thread was retired after its run completion and whose
\* next event, a text, ended in the error: the thread object holds the
\* three events of the run completion and nothing of the text.
C23_Witness ==
    \E w \in Workers :
        /\ workers[w].pc = "failed"
        /\ Len(workers[w].log) = 2
        /\ workers[w].log[1].kind = "run_completion"
        /\ workers[w].log[2].kind = "text"
        /\ workers[w].log[2].arg = "Hello"
        /\ TokenOfNoThread(w)
        /\ \E i \in 1..Len(thread_infos) :
              /\ thread_infos[i].workflow_id = workers[w].workflow_uuid
              /\ ~thread_infos[i].active
              /\ Kinds(thread_infos[i].enqueued) =
                    <<"RUN_STARTED", "CUSTOM", "RUN_FINISHED">>

(* -------------------------------- C24 --------------------------------- *)

\* The step hands a plain text of either kind, of worker w, to its handler
\* while the worker's thread is registered.
TextStep(w) ==
    /\ Hands(w)
    /\ ~TokenOfNoThread(w)
    /\ workers'[w].log[Len(workers'[w].log)].kind \in {"text_message", "text"}

\* The kinds a plain text is translated to.
TextTranslation(text) ==
    IF text = ""
    THEN <<"STATE_DELTA", "STATE_DELTA">>
    ELSE <<"STATE_DELTA", "TEXT_MESSAGE_START", "TEXT_MESSAGE_CONTENT",
           "TEXT_MESSAGE_END", "STATE_DELTA">>

\* C24: a plain text of either worker-side kind is enqueued as a state-delta
\* that sets status.phase to "processing_message", then, if the text is not
\* empty, start, one content event with the whole text and end, then a
\* state-delta that adds a transcript entry and clears agent.current_task;
\* the two state-deltas are there whether or not the text is empty.
C24_TextTranslation ==
    [][\A w \in Workers :
         TextStep(w) =>
            LET i == ThreadOf(w)
                text == workers'[w].log[Len(workers'[w].log)].arg
                events == Appended(i)
                n == Len(events)
            IN  /\ Kinds(events) = TextTranslation(text)
                /\ SetsPhase(events[1], "processing_message")
                /\ HasOp(events[n], "add", "/conversation/messages/-")
                /\ ValueAt(events[n].delta, "/agent/current_task") = None
                /\ HasOp(events[n], "replace", "/agent/current_task")
                /\ text # "" => events[3].delta = text]_vars

(* -------------------------------- C25 --------------------------------- *)

\* The kind under which the step's event of worker w is logged.
HandedKind(w) == workers'[w].log[Len(workers'[w].log)].kind

\* C25: when the filter rejects an event, no registry entry, no thread
\* object (its queues, its state, its flag), no stream and nothing of the
\* worker but its record of the event changes; a text the filter accepts is
\* enqueued as visit_text enqueues it: start, content and end when it is not
\* empty, nothing when it is.
C25_FilterRejects ==
    [][\A w \in Workers :
         /\ (Hands(w) /\ HandedKind(w) = "filtered") =>
               /\ UNCHANGED <<agui_threads, thread_infos, streams, n_sends, ui_vars>>
               /\ workers'[w].pc = workers[w].pc
               /\ workers'[w].n_uuid = workers[w].n_uuid
               /\ workers'[w].thread_info = workers[w].thread_info
               /\ \A v \in Workers : v # w => workers'[v] = workers[v]
         /\ (Hands(w) /\ HandedKind(w) = "text" /\ ~TokenOfNoThread(w)) =>
               /\ Appended(ThreadOf(w)) =
                     TextEvents(Uuid4("message", workers[w].workflow_uuid,
                                      workers[w].n_uuid + 1),
                                workers'[w].log[Len(workers'[w].log)].arg)
               /\ UNCHANGED <<agui_threads, streams>>]_vars

\* The customer's text was rejected and the travel agent's text after it
\* was translated: the thread was handed the three events of one text.
C25_Witness ==
    \E w \in Workers :
        /\ Len(workers[w].log) = 2
        /\ workers[w].log[1].kind = "filtered"
        /\ workers[w].log[2].kind = "text"
        /\ workers[w].log[1].arg = "Hello"
        /\ workers[w].log[2].arg = "Hello"
        /\ workers[w].pc = "running"
        /\ ~TokenOfNoThread(w)
        /\ Kinds(thread_infos[ThreadOf(w)].enqueued) =
              <<"TEXT_MESSAGE_START", "TEXT_MESSAGE_CONTENT",
                "TEXT_MESSAGE_END">>

(* -------------------------------- C26 --------------------------------- *)

\* Whether the event is the error state-delta with this error message.
IsErrorDelta(ev, e) ==
    /\ SetsPhase(ev, "error")
    /\ ValueAt(ev.delta, "/status/error") = e

\* The step is one of generator s in its except branch: it takes the
\* message that cannot be encoded, or it emits the synthesized run-finished.
ErrorStep(s) ==
    \/ streams[s].pc = "get" /\ streams'[s].pc = "error_finish"
    \/ streams[s].pc = "error_finish" /\ streams'[s].pc = "ERRORED"

\* The wire of a stream that failed ends with the error state-delta and a
\* run-finished for the thread.
EndsWithErrorAndRunFinished(s) ==
    LET wire == streams[s].wire
        n == Len(wire)
        i == streams[s].thread_info
    IN  /\ n >= 2
        /\ IsErrorDelta(wire[n - 1], "AttributeError")
        /\ wire[n] = RunFinishedEvent(thread_infos[i].thread_id,
                                      thread_infos[i].run_id)

\* C26: a generator that fails on a message it took from the queue emits the
\* error state-delta (status.phase "error", status.error the error's text),
\* then a run-finished, and then nothing more; its steps in the except
\* branch leave the registry, the thread's flag, every other thread object
\* and every other stream as they are.
C26_ErrorEndsStream ==
    /\ [](\A s \in Streams :
            streams[s].pc = "ERRORED" => EndsWithErrorAndRunFinished(s))
    /\ [][\A s \in Streams :
            /\ streams[s].pc = "ERRORED" => streams'[s] = streams[s]
            /\ ErrorStep(s) =>
                  LET i == streams[s].thread_info
                  IN  /\ agui_threads' = agui_threads
                      /\ thread_infos'[i].active = thread_infos[i].active
                      /\ \A j \in 1..Len(thread_infos) :
                            j # i => thread_infos'[j] = thread_infos[j]
                      /\ \A r \in Streams :
                            r # s => streams'[r] = streams[r]
                      /\ workers' = workers]_vars

\* A stream that failed on the text send_to_thread had put on its thread's
\* queue, while the thread is still registered and active and a stream of
\* the other thread is in its drain loop.
C26_Witness ==
    \E s \in Streams, r \in Streams :
        /\ streams[s].pc = "ERRORED"
        /\ EndsWithErrorAndRunFinished(s)
        /\ streams[s].message.type = "str"
        /\ get_thread_info_of_agui(streams[s].thread_id) =
              streams[s].thread_info
        /\ thread_infos[streams[s].thread_info].active
        /\ streams[r].thread_id # streams[s].thread_id
        /\ streams[r].pc = "get"

(* -------------------------------- C27 --------------------------------- *)

\* The worker's execution has failed while its thread is registered.
FailedOnRegisteredThread(w) ==
    /\ w \in Workers
    /\ workers[w].pc = "failed"
    /\ ~TokenOfNoThread(w)

\* The failure of worker w has been surfaced: an error state-delta was sent
\* on its thread, which is registered and inactive.
FailureSurfaced(w) ==
    /\ w \in Workers
    /\ ~TokenOfNoThread(w)
    /\ LET i == ThreadOf(w)
       IN  /\ ~thread_infos[i].active
           /\ \E k \in DOMAIN thread_infos[i].sent_messages :
                 SetsPhase(thread_infos[i].sent_messages[k], "error")

\* A client of the thread of worker w has gone away.
ClientGone(w) ==
    /\ w \in Workers
    /\ \E s \in Streams :
          /\ ~streams[s].connected
          /\ \E i \in 1..Len(thread_infos) :
                /\ thread_infos[i].thread_id = streams[s].thread_id
                /\ thread_infos[i].workflow_id = workers[w].workflow_uuid

\* C27: when the worker of a registered thread fails and the thread's
\* clients stay connected, an error state-delta is eventually sent on the
\* thread's stream and the thread is then in the registry with
\* active = false.
C27_WorkerFailureSurfaced ==
    \A w \in 1..MaxRequests :
        FailedOnRegisteredThread(w) ~> (FailureSurfaced(w) \/ ClientGone(w))

(* -------------------------------- C28 --------------------------------- *)

\* The number of closing state-deltas of tool invocations among the events.
RECURSIVE ToolCompletions(_)
ToolCompletions(events) ==
    IF events = << >> THEN 0
    ELSE (IF SetsPhase(Head(events), "tool_complete") THEN 1 ELSE 0)
         + ToolCompletions(Tail(events))

\* C28: on every stream that has emitted its snapshot, whose
\* conversation.tools is an empty list, the client's conversation.tools
\* holds as many entries as closing state-deltas of tool invocations have
\* been emitted on the stream.
C28_ToolsListGrows ==
    \A s \in Streams :
        LET wire == streams[s].wire
        IN  (/\ Len(wire) >= 2
             /\ wire[2].type = "STATE_SNAPSHOT"
             /\ wire[2].snapshot.conversation.tools = << >>)
            => Len(ClientDocument(wire, Len(wire)).doc.conversation.tools) =
                  ToolCompletions(wire)

(* -------------------------------- C29 --------------------------------- *)

\* The event the step hands over for worker w.
Handed(w) == workers'[w].log[Len(workers'[w].log)]

\* The event is one a workflow may produce: any but a tool call whose
\* arguments are not JSON.
Legal(event) == event.kind = "tool_call" => JsonParses(event.arg)

\* C29: the handler of every legal event of a worker whose thread is
\* registered runs to its end (the worker goes on or waits for its answer),
\* and the handler of an input request, whatever its prompt, enqueues
\* state-delta, start, content, end, state-delta and run-finished.
C29_HandlersAreTotal ==
    [][\A w \in Workers :
         (Hands(w) /\ ~TokenOfNoThread(w) /\ Legal(Handed(w))) =>
            /\ workers'[w].pc # "failed"
            /\ Handed(w).kind = "text_input" =>
                  Kinds(Appended(ThreadOf(w))) =
                     <<"STATE_DELTA", "TEXT_MESSAGE_START",
                       "TEXT_MESSAGE_CONTENT", "TEXT_MESSAGE_END",
                       "STATE_DELTA", "RUN_FINISHED">>]_vars

(* -------------------------------- C30 --------------------------------- *)

\* C30: every text-message-content event that an input request of either
\* kind enqueues carries the request's prompt with each "Press enter to
\* skip and use auto-reply" replaced by "Answer continue to skip and use
\* auto-reply", and nothing else changed.
C30_PromptIsForwarded ==
    [][\A w \in Workers :
         (/\ Hands(w)
          /\ ~TokenOfNoThread(w)
          /\ Handed(w).kind \in {"text_input", "input_request"}) =>
            LET events == Appended(ThreadOf(w))
            IN  \A k \in DOMAIN events :
                   events[k].type = "TEXT_MESSAGE_CONTENT" =>
                       events[k].delta = ReplacePressEnter(Handed(w).arg)]_vars

(* -------------------------------- C31 --------------------------------- *)

\* What the step appends to the transcript of thread object i.
Transcribed(i) ==
    SubSeq(thread_infos'[i].sent_messages,
           Len(thread_infos[i].sent_messages) + 1,
           Len(thread_infos'[i].sent_messages))

\* What the step emits on the wire of the streams of thread object i.
Emitted(i) ==
    IF \E s \in Streams :
          /\ streams'[s].thread_info = i
          /\ streams'[s].wire # streams[s].wire
    THEN LET s == CHOOSE s \in Streams :
                     /\ streams'[s].thread_info = i
                     /\ streams'[s].wire # streams[s].wire
         IN  SubSeq(streams'[s].wire, Len(streams[s].wire) + 1,
                    Len(streams'[s].wire))
    ELSE << >>

\* C31: in every step the transcript of every thread keeps what it held,
\* in order, and grows by exactly the events the step emits on the wire of
\* the thread's streams: the transcript is the sequence of all events
\* emitted for the thread.
C31_TranscriptIsWire ==
    [][\A i \in 1..Len(thread_infos) :
         /\ Len(thread_infos'[i].sent_messages) >=
               Len(thread_infos[i].sent_messages)
         /\ SubSeq(thread_infos'[i].sent_messages, 1,
                   Len(thread_infos[i].sent_messages)) =
               thread_infos[i].sent_messages
         /\ Transcribed(i) = Emitted(i)]_vars

(* -------------------------------- C32 --------------------------------- *)

\* Thread object i is held in the registry.
Registered(i) == \E t \in DOMAIN agui_threads : agui_threads[t] = i

\* Every thread object in the registry is active; an inactive one is not in
\* the registry.
RegisteredIffActive ==
    \A i \in 1..Len(thread_infos) : Registered(i) <=> thread_infos[i].active

\* The step is a call send_to_thread(t, m).
Sends(t, m) ==
    /\ n_sends' = n_sends + 1
    /\ \/ /\ t \notin DOMAIN agui_threads
          /\ thread_infos' = thread_infos
       \/ /\ t \in DOMAIN agui_threads
          /\ thread_infos'[agui_threads[t]].out_queue =
                Append(thread_infos[agui_threads[t]].out_queue, StrMessage(m))

\* C32: a thread object is in the registry exactly when its active flag is
\* true, and every send_to_thread either appends its message to the
\* outbound queue of the registered, active thread of that id and leaves
\* every other thread object alone, or, when the id is not registered,
\* changes no thread object; it never changes the registry.
C32_RegisteredIsActive ==
    /\ []RegisteredIffActive
    /\ [][n_sends' # n_sends =>
            /\ agui_threads' = agui_threads
            /\ \E t \in ThreadIds, m \in Messages : Sends(t, m)
            /\ \A i \in 1..Len(thread_infos) :
                  thread_infos'[i] # thread_infos[i] =>
                      /\ Registered(i)
                      /\ thread_infos[i].active
                      /\ thread_infos'[i].out_queue =
                            Append(thread_infos[i].out_queue,
                                   thread_infos'[i].out_queue[
                                      Len(thread_infos'[i].out_queue)])
                      /\ \A j \in 1..Len(thread_infos) :
                            j # i => thread_infos'[j] = thread_infos[j]]_vars

\* The host's text is on the outbound queue of a registered, active thread
\* while the other thread id was retired: its object is inactive, out of
\* the registry, and was handed nothing.
C32_Witness ==
    /\ n_sends = 1
    /\ \E i \in 1..Len(thread_infos), j \in 1..Len(thread_infos) :
          /\ Registered(i)
          /\ thread_infos[i].active
          /\ thread_infos[i].out_queue # << >>
          /\ thread_infos[i].out_queue[Len(thread_infos[i].out_queue)].type
                = "str"
          /\ ~Registered(j)
          /\ ~thread_infos[j].active
          /\ thread_infos[j].thread_id # thread_infos[i].thread_id
          /\ thread_infos[j].out_queue = << >>

(* -------------------------------- C33 --------------------------------- *)

\* The step is one of worker w: it hands over an event or an input request
\* of its returns.
WorkerActs(w) == workers'[w] # workers[w]

\* The event, if it carries an id a worker drew, carries one drawn under
\* the correlation token of thread object i.
DrawnFor(ev, i) ==
    ev.type \in {"TEXT_MESSAGE_START", "TEXT_MESSAGE_CONTENT",
                 "TEXT_MESSAGE_END"}
    => ev.message_id[2] = thread_infos[i].workflow_id

\* Every event with a drawn id on the queue, in the transcript or among
\* the events ever enqueued of a thread object was translated for that
\* thread's worker.
QueuesHoldOwnEvents ==
    \A i \in 1..Len(thread_infos) :
        /\ \A k \in DOMAIN thread_infos[i].out_queue :
              DrawnFor(thread_infos[i].out_queue[k], i)
        /\ \A k \in DOMAIN thread_infos[i].enqueued :
              DrawnFor(thread_infos[i].enqueued[k], i)
        /\ \A k \in DOMAIN thread_infos[i].sent_messages :
              DrawnFor(thread_infos[i].sent_messages[k], i)

\* Every stream emits for the thread its request named, and every event
\* with a drawn id on its wire was translated for that thread's worker.
StreamsEmitOwnEvents ==
    \A s \in Streams :
        streams[s].thread_info # 0 =>
            LET i == streams[s].thread_info
            IN  /\ thread_infos[i].thread_id = streams[s].thread_id
                /\ \A k \in DOMAIN streams[s].wire :
                      DrawnFor(streams[s].wire[k], i)

\* The values a worker's input requests have read are, in order, the first
\* values delivered to the worker's own thread.
WorkersReadOwnValues ==
    \A w \in Workers :
        \A i \in 1..Len(thread_infos) :
            thread_infos[i].workflow_id = workers[w].workflow_uuid =>
                LET r == Received(workers[w].log)
                IN  /\ Len(r) <= Len(thread_infos[i].delivered)
                    /\ r = SubSeq(thread_infos[i].delivered, 1, Len(r))

\* C33: with several threads running at once, a step of a worker changes
\* only its own thread's object, a request changes only the object of the
\* thread id it names, every queue and every stream holds only events
\* translated for its own thread's worker, and a worker reads only values
\* delivered to its own thread.
C33_ThreadIsolation ==
    /\ [](QueuesHoldOwnEvents /\ StreamsEmitOwnEvents /\ WorkersReadOwnValues)
    /\ [][/\ \A w \in Workers :
               WorkerActs(w) =>
                  \A j \in 1..Len(thread_infos) :
                     thread_infos'[j] # thread_infos[j] =>
                        thread_infos[j].workflow_id = workers[w].workflow_uuid
          /\ Len(streams') > Len(streams) =>
               \A j \in 1..Len(thread_infos) :
                  thread_infos'[j] # thread_infos[j] =>
                     thread_infos[j].thread_id =
                        streams'[Len(streams')].thread_id]_vars

\* Two threads at once: both workers are suspended in their input
\* requests, T1's events were emitted on T1's stream, a value was then
\* delivered for T2 only, and nothing was delivered to T1.
C33_Witness ==
    \E i \in 1..Len(thread_infos), j \in 1..Len(thread_infos) :
        /\ thread_infos[i].thread_id = "T1"
        /\ thread_infos[j].thread_id = "T2"
        /\ Registered(i)
        /\ Registered(j)
        /\ workers[WorkerOf(i)].pc = "text_input"
        /\ workers[WorkerOf(j)].pc = "running"
        /\ Received(workers[WorkerOf(j)].log) = <<"P12345">>
        /\ thread_infos[j].delivered = <<"P12345">>
        /\ thread_infos[i].delivered = << >>
        /\ \E s \in Streams :
              /\ streams[s].thread_info = i
              /\ streams[s].pc = "FINISHED"

(* -------------------------------- C34 --------------------------------- *)

\* Whether the document has the member at the two-level path.
HasMember(doc, object, member) ==
    /\ object \in DOMAIN doc
    /\ member \in DOMAIN doc[object]

\* Whether the target of the operation exists in the document: the member
\* a replace names, the list an add appends to, the parent object of a
\* member an add sets.  Any other path names nothing in the document.
TargetExists(doc, op) ==
    CASE op.op = "replace" /\ op.path = "/status/phase" ->
            HasMember(doc, "status", "phase")
      [] op.op = "replace" /\ op.path = "/status/error" ->
            HasMember(doc, "status", "error")
      [] op.op = "replace" /\ op.path = "/ui/loading" ->
            HasMember(doc, "ui", "loading")
      [] op.op = "replace" /\ op.path = "/ui/showInput" ->
            HasMember(doc, "ui", "showInput")
      [] op.op = "replace" /\ op.path = "/ui/showProgress" ->
            HasMember(doc, "ui", "showProgress")
      [] op.op = "replace" /\ op.path = "/agent/current_task" ->
            HasMember(doc, "agent", "current_task")
      [] op.op = "replace" /\ op.path = "/conversation/completed" ->
            HasMember(doc, "conversation", "completed")
      [] op.op = "add" /\ op.path = "/conversation/messages/-" ->
            HasMember(doc, "conversation", "messages")
      [] op.op = "add" /\ op.path = "/conversation/tools/-" ->
            HasMember(doc, "conversation", "tools")
      [] op.op = "add" /\ op.path \in {"/conversation/messages",
                                      "/conversation/tools"} ->
            "conversation" \in DOMAIN doc
      [] OTHER -> FALSE

\* Whether the operations of a delta can be applied, one after the other,
\* to the client's document c.
RECURSIVE DeltaApplies(_, _)
DeltaApplies(c, delta) ==
    \/ delta = << >>
    \/ /\ c.defined
       /\ TargetExists(c.doc, Head(delta))
       /\ DeltaApplies(ApplyOp(c, Head(delta)), Tail(delta))

\* C34: every state-delta on the wire of a stream can be applied to the
\* document the client has from the snapshot and the deltas that precede it
\* on that stream: every replace names an existing member and every add an
\* existing list or parent.
C34_DeltasApply ==
    \A s \in Streams :
        \A k \in DOMAIN streams[s].wire :
            streams[s].wire[k].type = "STATE_DELTA" =>
                DeltaApplies(ClientDocument(streams[s].wire, k - 1),
                             streams[s].wire[k].delta)

\* A stream of a request that resumed the thread has emitted, after its
\* snapshot, the delta of the answered input request and the closing delta
\* of a tool invocation.
C34_Witness ==
    \E s \in Streams :
        /\ ~streams[s].created
        /\ Len(streams[s].wire) >= 2
        /\ streams[s].wire[2].type = "STATE_SNAPSHOT"
        /\ \E k \in DOMAIN streams[s].wire : IsResumeDelta(streams[s].wire[k])
        /\ \E k \in DOMAIN streams[s].wire :
              SetsPhase(streams[s].wire[k], "tool_complete")

(* -------------------------------- C35 --------------------------------- *)

\* The step leaves the inbound queue of every thread object there was as
\* it is.
InboundUnchanged ==
    \A j \in 1..Len(thread_infos) :
        thread_infos'[j].input_queue = thread_infos[j].input_queue

\* The step is a request that adds a stream over a thread that was
\* registered under the request's id as object i.
Resumes(i) ==
    /\ Len(streams') = Len(streams) + 1
    /\ ~streams'[Len(streams')].created
    /\ streams'[Len(streams')].thread_id \in DOMAIN agui_threads
    /\ agui_threads[streams'[Len(streams')].thread_id] = i

\* C35: the inbound queue of a thread grows only in a request that resumes
\* that thread, and then by one value, the content of a user message; a
\* resuming request whose last message is a user message appends that
\* message's content to the thread's inbound queue and changes no other
\* inbound queue; a resuming request whose last message is not a user
\* message changes no inbound queue; a request that creates a thread
\* changes no inbound queue and the new thread's inbound queue is empty.
C35_OnlyUserResumeDelivers ==
    [][/\ \A i \in 1..Len(thread_infos) :
            Len(thread_infos'[i].input_queue) >
               Len(thread_infos[i].input_queue) =>
                  /\ Resumes(i)
                  /\ \E c \in Inputs :
                        thread_infos'[i].input_queue =
                           Append(thread_infos[i].input_queue, c)
       /\ \A t \in ThreadIds, m \in LastMessages :
            run_agent(t, m) =>
               IF ~IsRegistered(t)
               THEN /\ InboundUnchanged
                    /\ thread_infos'[Len(thread_infos')].input_queue = << >>
               ELSE IF m.role = "user"
               THEN /\ thread_infos'[agui_threads[t]].input_queue =
                          Append(thread_infos[agui_threads[t]].input_queue,
                                 m.content)
                    /\ \A j \in 1..Len(thread_infos) :
                          j # agui_threads[t] =>
                             thread_infos'[j].input_queue =
                                thread_infos[j].input_queue
               ELSE InboundUnchanged]_vars

\* Three requests on one thread: the first created it, and of the two that
\* resumed it one had a user message last, whose content is the only value
\* ever delivered, and the other had not.
C35_Witness ==
    /\ Len(streams) = 3
    /\ Len(thread_infos) = 1
    /\ ~streams[2].created
    /\ ~streams[3].created
    /\ thread_infos[1].delivered = <<"P12345">>
    /\ thread_infos[1].input_queue = <<"P12345">>

(* ---------------------------- WebSocket UI ----------------------------- *)
(* fastapi_ui.py: a ConversationManager shared by the HTTP and WebSocket   *)
(* handlers on the server's event loop, and one FastAPITravelUI per        *)
(* started conversation, whose text_input runs in an executor thread on a  *)
(* new event loop made for each call (UICustomerAgent.get_human_input).    *)

MaxConversations == 1     \* conversations started through /api/conversation
MaxConnections == 2       \* WebSocket connections accepted overall
MaxProvided == 1          \* user_input messages received on one connection
MaxAsks == 2              \* text_input calls of one workflow

\* The conversation ids: start_conversation draws a new uuid4, a WebSocket
\* client names any id in its path.
ConversationIds == {"c1", "c2"}

\* The prompt a workflow asks with.
PROMPT == "Reply."

\* No event loop: a Queue that has not been awaited on yet.
NoLoop == <<0, 0>>

\* d[k] = v
SetItem(d, k, v) == [x \in DOMAIN d \cup {k} |-> IF x = k THEN v ELSE d[x]]

\* del d[k] if k in d
DelItem(d, k) == [x \in DOMAIN d \ {k} |-> d[x]]

\* asyncio.Queue(): empty, bound to no loop until a get has to wait.
Queue == [items |-> << >>, loop |-> NoLoop]

\* ConversationManager.add_message(conversation_id, role, content): appended
\* to the conversation's record if there is one, logged and dropped if not.
\* The message's uuid4 and timestamp are not kept.
add_message(conversations, conversation_id, role, content) ==
    IF conversation_id \in DOMAIN conversations
    THEN [conversations EXCEPT
            ![conversation_id] = Append(@, [role |-> role, content |-> content])]
    ELSE conversations

\* get_conversation(conversation_id): the record, or 404.
get_conversation(conversation_id) ==
    IF conversation_id \in DOMAIN conversation_manager.conversations
    THEN conversation_manager.conversations[conversation_id]
    ELSE <<[role |-> "404", content |-> "Conversation not found"]>>

\* ConversationManager.send_event(conversation_id, event): sent on the
\* conversation's socket if it has one; a failed send is logged.
send_event(conversation_id, type, delivered) ==
    IF conversation_id \in DOMAIN conversation_manager.websockets /\ delivered
    THEN [endpoints EXCEPT
            ![conversation_manager.websockets[conversation_id]].events =
                Append(@, type)]
    ELSE endpoints

\* ConversationManager.provide_input(conversation_id, user_input): put on
\* the queue the map holds for the id now; logged and dropped if none.
provide_input(conversation_id, user_input) ==
    IF conversation_id \in DOMAIN conversation_manager.pending_inputs
    THEN [input_queues EXCEPT
            ![conversation_manager.pending_inputs[conversation_id]].items =
                Append(@, user_input)]
    ELSE input_queues

\* POST /api/conversation: a new id, and the workflow launched as a task.
\* No conversation record and no queue is made here.
start_conversation(conversation_id) ==
    /\ Len(workflows) < MaxConversations
    /\ \A u \in 1..Len(workflows) :
          workflows[u].conversation_id # conversation_id
    /\ workflows' = Append(workflows,
          [conversation_id |-> conversation_id,
           pc |-> "running",
           queue |-> 0,
           asked |-> 0,
           connections |-> 0,
           returned |-> << >>])
    /\ UNCHANGED <<conversation_manager, input_queues, endpoints>>
    /\ UNCHANGED <<agui_threads, thread_infos, workers, streams, n_semantic,
                   n_sends>>

\* websocket_endpoint up to its receive loop: accept, register the socket,
\* create_conversation (a new record and a new Queue, whatever was there).
websocket_endpoint(conversation_id) ==
    /\ Len(endpoints) < MaxConnections
    /\ endpoints' = Append(endpoints,
          [conversation_id |-> conversation_id,
           pc |-> "open",
           sent |-> << >>,
           events |-> << >>])
    /\ input_queues' = Append(input_queues, Queue)
    /\ conversation_manager' =
          [conversations |->
              SetItem(conversation_manager.conversations,
                      conversation_id, << >>),
           websockets |->
              SetItem(conversation_manager.websockets,
                      conversation_id, Len(endpoints) + 1),
           pending_inputs |->
              SetItem(conversation_manager.pending_inputs,
                      conversation_id, Len(input_queues) + 1)]
    /\ UNCHANGED workflows
    /\ UNCHANGED <<agui_threads, thread_infos, workers, streams, n_semantic,
                   n_sends>>

\* One turn of websocket_endpoint's loop: a user_input message arrives.
receive_text(e, content) ==
    /\ endpoints[e].pc = "open"
    /\ Len(endpoints[e].sent) < MaxProvided
    /\ endpoints' = [endpoints EXCEPT ![e].sent = Append(@, content)]
    /\ input_queues' = provide_input(endpoints[e].conversation_id, content)
    /\ UNCHANGED <<conversation_manager, workflows>>
    /\ UNCHANGED <<agui_threads, thread_infos, workers, streams, n_semantic,
                   n_sends>>

\* websocket_endpoint's except WebSocketDisconnect: the id's socket and the
\* id's queue are deleted from the maps, whichever connection made them.
WebSocketDisconnect(e) ==
    /\ endpoints[e].pc = "open"
    /\ endpoints' = [endpoints EXCEPT ![e].pc = "closed"]
    /\ conversation_manager' =
          [conversation_manager EXCEPT
             !.websockets = DelItem(@, endpoints[e].conversation_id),
             !.pending_inputs = DelItem(@, endpoints[e].conversation_id)]
    /\ UNCHANGED <<input_queues, workflows>>
    /\ UNCHANGED <<agui_threads, thread_infos, workers, streams, n_semantic,
                   n_sends>>

\* The end of FastAPITravelUI.text_input once wait_for_input has returned
\* response: the prompt and the response are recorded, response is returned.
text_input_returns(u, response, queues, sockets) ==
    /\ workflows' = [workflows EXCEPT
          ![u].pc = "running",
          ![u].queue = 0,
          ![u].asked = @ + 1,
          ![u].returned = Append(@, response)]
    /\ conversation_manager' =
          [conversation_manager EXCEPT
             !.conversations =
                add_message(
                  add_message(@, workflows[u].conversation_id,
                              "assistant", PROMPT),
                  workflows[u].conversation_id, "user", response)]
    /\ input_queues' = queues
    /\ endpoints' = sockets

\* FastAPITravelUI.text_input up to the first suspension of wait_for_input.
\* The input_request event is sent from the call's own loop on a socket of
\* the server's loop: it is delivered or the send fails and is logged.
\* wait_for_input returns "" at once if the id has no queue; takes the head
\* of a queue that has an item; waits on an empty queue that no loop has
\* waited on; and returns "" on the RuntimeError of an empty queue bound to
\* the loop of an earlier call.
text_input(u, delivered) ==
    /\ workflows[u].pc = "running"
    /\ workflows[u].asked < MaxAsks
    /\ LET c == workflows[u].conversation_id
           sockets == send_event(c, "input_request", delivered)
       IN  IF c \notin DOMAIN conversation_manager.pending_inputs
           THEN text_input_returns(u, "", input_queues, sockets)
           ELSE LET q == conversation_manager.pending_inputs[c]
                IN  IF input_queues[q].items # << >>
                    THEN text_input_returns(u, Head(input_queues[q].items),
                            [input_queues EXCEPT ![q].items = Tail(@)],
                            sockets)
                    ELSE IF input_queues[q].loop = NoLoop
                    THEN /\ input_queues' = [input_queues EXCEPT
                               ![q].loop = <<u, workflows[u].asked + 1>>]
                         /\ workflows' = [workflows EXCEPT
                               ![u].pc = "waiting",
                               ![u].queue = q,
                               ![u].connections = Len(endpoints)]
                         /\ endpoints' = sockets
                         /\ UNCHANGED conversation_manager
                    ELSE text_input_returns(u, "", input_queues, sockets)
    /\ UNCHANGED <<agui_threads, thread_infos, workers, streams, n_semantic,
                   n_sends>>

\* The suspended Queue.get wakes: the queue the call holds has an item.
wait_for_input_wakes(u) ==
    /\ workflows[u].pc = "waiting"
    /\ input_queues[workflows[u].queue].items # << >>
    /\ text_input_returns(u, Head(input_queues[workflows[u].queue].items),
          [input_queues EXCEPT ![workflows[u].queue].items = Tail(@)],
          endpoints)
    /\ UNCHANGED <<agui_threads, thread_infos, workers, streams, n_semantic,
                   n_sends>>

\* run_workflow after hitl_workflow: it returned (conversation_end) or it
\* raised (error); the event goes to the conversation's socket if any.
run_workflow_ends(u, type) ==
    /\ workflows[u].pc = "running"
    /\ workflows' = [workflows EXCEPT ![u].pc = "done"]
    /\ endpoints' = send_event(workflows[u].conversation_id, type, TRUE)
    /\ UNCHANGED <<conversation_manager, input_queues>>
    /\ UNCHANGED <<agui_threads, thread_infos, workers, streams, n_semantic,
                   n_sends>>

NextWebSocket ==
    \/ \E c \in ConversationIds : start_conversation(c)
    \/ \E c \in ConversationIds : websocket_endpoint(c)
    \/ \E e \in 1..Len(endpoints), v \in Inputs : receive_text(e, v)
    \/ \E e \in 1..Len(endpoints) : WebSocketDisconnect(e)
    \/ \E u \in 1..Len(workflows), delivered \in BOOLEAN :
          text_input(u, delivered)
    \/ \E u \in 1..Len(workflows) : wait_for_input_wakes(u)
    \/ \E u \in 1..Len(workflows), type \in {"conversation_end", "error"} :
          run_workflow_ends(u, type)

WebSocketSpec == Init /\ [][NextWebSocket]_vars

(* -------------------------------- C36 ---------------------------------- *)

\* The values the client has supplied for a conversation: the user_input
\* messages received so far on the connections made with its id.
Supplied(conversation_id) ==
    {endpoints[e].sent[j] :
        <<e, j>> \in {p \in (1..Len(endpoints)) \X (1..MaxProvided) :
                        /\ endpoints[p[1]].conversation_id = conversation_id
                        /\ p[2] <= Len(endpoints[p[1]].sent)}}

RECURSIVE SuppliedCount(_, _)
\* How many values the client has supplied on the first n connections.
SuppliedCount(conversation_id, n) ==
    IF n = 0 THEN 0
    ELSE SuppliedCount(conversation_id, n - 1)
         + (IF endpoints[n].conversation_id = conversation_id
            THEN Len(endpoints[n].sent) ELSE 0)

\* C36: text_input waits for user input: every value it has returned is one
\* the client has supplied through provide_input for that conversation, and
\* it has not returned more often than the client has supplied a value,
\* whether or not the conversation's WebSocket was connected when it asked.
C36_ReturnsSuppliedInput ==
    \A u \in 1..Len(workflows) :
        /\ \A k \in 1..Len(workflows[u].returned) :
              workflows[u].returned[k] \in Supplied(workflows[u].conversation_id)
        /\ Len(workflows[u].returned) <=
              SuppliedCount(workflows[u].conversation_id, Len(endpoints))

(* -------------------------------- C37 ---------------------------------- *)

\* The step is the arrival of user_input message v on connection e.
ReceivesUserInput(e, v) ==
    /\ e <= Len(endpoints)
    /\ endpoints'[e].sent = Append(endpoints[e].sent, v)

\* Call u is suspended in text_input, a connection of its conversation that
\* was there when it suspended has disconnected, and connection e was made
\* with the same conversation id after the suspension and is the socket
\* the manager holds for the conversation.
SuspendedAcrossReconnect(u, e) ==
    /\ workflows[u].pc = "waiting"
    /\ e <= Len(endpoints)
    /\ e > workflows[u].connections
    /\ endpoints[e].conversation_id = workflows[u].conversation_id
    /\ endpoints[e].pc = "open"
    /\ workflows[u].conversation_id \in DOMAIN conversation_manager.websockets
    /\ conversation_manager.websockets[workflows[u].conversation_id] = e
    /\ \E d \in 1..workflows[u].connections :
          /\ endpoints[d].conversation_id = workflows[u].conversation_id
          /\ endpoints[d].pc = "closed"

\* The value v is put on the queue that the suspended call u waits on.
DeliveredTo(u, v) ==
    input_queues'[workflows[u].queue].items =
        Append(input_queues[workflows[u].queue].items, v)

\* C37: provide_input provides the value to the waiting conversation: when
\* a text_input call is suspended, the client's WebSocket has disconnected
\* and reconnected with the same conversation id, and a user_input message
\* arrives on the new connection, the value is delivered to the suspended
\* call (so that it can return).
C37_ReconnectedInputDelivered ==
    [][\A u \in 1..Len(workflows), e \in 1..MaxConnections, v \in Inputs :
          SuspendedAcrossReconnect(u, e) /\ ReceivesUserInput(e, v)
              => DeliveredTo(u, v)]_vars

(* -------------------------------- C38 ---------------------------------- *)

\* Sequence s is the beginning of sequence t.
IsPrefix(s, t) == Len(s) <= Len(t) /\ SubSeq(t, 1, Len(s)) = s

\* C38: a conversation's message history is append-only: every message that
\* get_conversation returns for a conversation id is returned in the same
\* position after any step, be it a connect, a disconnect, a reconnect or
\* the recording of further messages.
C38_HistoryAppendOnly ==
    [][\A c \in DOMAIN conversation_manager.conversations :
          IsPrefix(get_conversation(c), get_conversation(c)')]_vars

====
